---- MODULE Spec2Model ----
(***************************************************************************)
(* diesel-guard: the check registry, the safety-assured line resolver and  *)
(* the Rhai scripting bridge.                                              *)
(*                                                                         *)
(* A source text is a sequence of bytes.  pg_query's scanner is an         *)
(* external library, so every byte carries the lexical class the scanner   *)
(* assigns to it:                                                          *)
(*   "T"   first byte of a non-comment token                               *)
(*   "C"   first byte of a comment token (SQL_COMMENT or C_COMMENT)        *)
(*   "S"   first byte of a `--` comment holding  safety-assured:start      *)
(*   "E"   first byte of a `--` comment holding  safety-assured:end        *)
(*   "N"   a newline byte inside a (possibly nested) block comment         *)
(*   "nl"  a newline byte between tokens                                   *)
(*   "sp"  any other whitespace byte                                       *)
(*   "X"   a byte the scanner rejects (unterminated quote or comment)      *)
(* Offsets are 0-based as in the Rust code; sql[i + 1] is the byte at      *)
(* offset i.                                                               *)
(***************************************************************************)
EXTENDS Integers, Sequences, FiniteSets, TLC

\* ------------------------------------------------------------------ bounds
MaxSrcLen == 4
MaxItems == 2
MaxScripts == 2
MaxArrayLen == 2

\* ----------------------------------------------------------------- helpers
Min(a, b) == IF a < b THEN a ELSE b

Range(s) == {s[i] : i \in DOMAIN s}

RECURSIVE SeqsUpTo(_, _)
SeqsUpTo(S, n) ==
    IF n = 0 THEN {<<>>}
    ELSE LET shorter == SeqsUpTo(S, n - 1)
         IN  shorter \cup {Append(s, x) : s \in {t \in shorter : Len(t) = n - 1}, x \in S}

RECURSIVE Flatten(_)
Flatten(ss) == IF ss = <<>> THEN <<>> ELSE Head(ss) \o Flatten(Tail(ss))

\* ------------------------------------------------------------ source bytes
CommentStart == {"C", "S", "E"}
ByteKinds == {"T", "C", "N", "nl", "sp", "X"}

IsNewline(b) == b \in {"nl", "N"}

\* "N" only occurs inside a block comment, i.e. after a comment's first byte
\* or after another byte of the same comment.
WellFormedSource(s) ==
    \A i \in DOMAIN s : s[i] = "N" => (i > 1 /\ s[i - 1] \in {"C", "N"})

SourcesUpTo(n) == {s \in SeqsUpTo(ByteKinds, n) : WellFormedSource(s)}

\* ------------------------------------------------------ checks/mod.rs 215+
\* fn byte_offset_to_line(sql, byte_offset)
byte_offset_to_line(sql, byte_offset) ==
    LET offset == Min(byte_offset, Len(sql))
    IN  Cardinality({i \in 1..offset : IsNewline(sql[i])}) + 1

\* pg_query::scan(sql): Err on a byte the lexer rejects
ScanOk(sql) == \A i \in DOMAIN sql : sql[i] # "X"

RECURSIVE TokenStartsFrom(_, _)
TokenStartsFrom(sql, i) ==
    IF i > Len(sql) THEN <<>>
    ELSE IF sql[i] = "T" THEN <<i - 1>> \o TokenStartsFrom(sql, i + 1)
    ELSE TokenStartsFrom(sql, i + 1)

\* fn non_comment_token_starts(sql)
non_comment_token_starts_unchecked(sql) == TokenStartsFrom(sql, 1)

non_comment_token_starts(sql) ==
    IF ~ScanOk(sql) THEN <<>> ELSE TokenStartsFrom(sql, 1)

\* slice::binary_search on a sorted slice; indices are 0-based.
\* [found |-> TRUE, idx |-> i] is Ok(i), [found |-> FALSE, idx |-> i] is Err(i).
RECURSIVE BinarySearchIn(_, _, _, _)
BinarySearchIn(s, x, left, right) ==
    IF left >= right THEN [found |-> FALSE, idx |-> left]
    ELSE LET mid == left + ((right - left) \div 2)
         IN  IF s[mid + 1] = x THEN [found |-> TRUE, idx |-> mid]
             ELSE IF s[mid + 1] < x THEN BinarySearchIn(s, x, mid + 1, right)
             ELSE BinarySearchIn(s, x, left, mid)

binary_search(s, x) == BinarySearchIn(s, x, 0, Len(s))

\* fn first_token_at_or_after(token_starts, offset)
first_token_at_or_after_raw(token_starts, offset) == offset

first_token_at_or_after(token_starts, offset) ==
    LET r == binary_search(token_starts, offset)
    IN  IF r.found THEN token_starts[r.idx + 1]
        ELSE IF r.idx < Len(token_starts) THEN token_starts[r.idx + 1]
        ELSE offset

\* lines 198-199 of check_stmts_with_context: the line a statement is
\* attributed to
StmtLine(sql, stmt_location) ==
    byte_offset_to_line(sql,
        first_token_at_or_after(non_comment_token_starts(sql), stmt_location))

\* ------------------------------------------------------------ strings
\* A Rust String is a sequence of pieces; format!() concatenates pieces.
Str(x) == <<x>>

\* ------------------------------------------------------------ violation.rs
\* Violation::new(operation, problem, safe_alternative)
Violation(operation, problem, safe_alternative) ==
    [operation |-> operation, problem |-> problem, safe_alternative |-> safe_alternative]

\* -------------------------------------------------------------- config.rs
\* struct Config: disable_checks and postgres_version (an Option<u32>: <<>>
\* when not set, <<v>> when set)
Config(disable_checks, postgres_version) ==
    [disable_checks |-> disable_checks, postgres_version |-> postgres_version]

\* Config::is_check_enabled
is_check_enabled_always(config, check_name) == TRUE

is_check_enabled_when_none_disabled(config, check_name) == config.disable_checks = {}

is_check_enabled(config, check_name) ==
    ~(\E c \in config.disable_checks : c = check_name)

\* ------------------------------------------------------- statement trees
\* extract_node(raw_stmt) is None for a RawStmt that carries no node
NoNode == [kind |-> "None"]

AlterTableDropColumn(table, cols) ==
    [kind |-> "AlterTable", name |-> table,
     operations |-> <<[op |-> "DropColumn", column_names |-> cols, if_exists |-> FALSE]>>]

DropTable(tables) ==
    [kind |-> "Drop", object_type |-> "Table", names |-> tables,
     if_exists |-> FALSE, cascade |-> FALSE, restrict |-> FALSE]

SelectStmt == [kind |-> "Select"]

\* Statement::AlterTable { name, operations } and its operations
DropColumnOp(column_names, if_exists) ==
    [op |-> "DropColumn", column_names |-> column_names, if_exists |-> if_exists]

AddColumnOp == [op |-> "AddColumn"]

AlterTable(name, operations) ==
    [kind |-> "AlterTable", name |-> name, operations |-> operations]

\* Statement::Drop { object_type, if_exists, names, cascade, restrict }
Drop(object_type, names, if_exists) ==
    [kind |-> "Drop", object_type |-> object_type, names |-> names,
     if_exists |-> if_exists, cascade |-> FALSE, restrict |-> FALSE]

\* ---------------------------------------------------- checks/drop_column.rs
DropColumnViolation(table_name, column_name, if_exists) ==
    Violation(Str("DROP COLUMN"),
              <<"Dropping column '", column_name, "' from table '", table_name, "'">>,
              <<"ALTER TABLE ", table_name, " DROP COLUMN ", column_name,
                IF if_exists THEN " IF EXISTS" ELSE "">>)

DropColumnCheck(stmt) ==
    IF stmt.kind # "AlterTable" THEN <<>>
    ELSE Flatten([i \in DOMAIN stmt.operations |->
            LET op == stmt.operations[i]
            IN  IF op.op # "DropColumn" THEN <<>>
                ELSE [j \in DOMAIN op.column_names |->
                        DropColumnViolation(stmt.name, op.column_names[j], op.if_exists)]])

\* ----------------------------------------------------- checks/drop_table.rs
DropTableCheck_once(stmt) ==
    IF stmt.kind # "Drop" THEN <<>>
    ELSE IF stmt.object_type # "Table" THEN <<>>
    ELSE <<Violation(Str("DROP TABLE"),
                     <<"Dropping table '", stmt.names[1], "'">>,
                     <<"DROP TABLE", IF stmt.if_exists THEN " IF EXISTS" ELSE "", " ",
                       stmt.names[1],
                       IF stmt.cascade THEN " CASCADE" ELSE "",
                       IF stmt.restrict THEN " RESTRICT" ELSE "">>)>>

DropTableCheck(stmt) ==
    IF stmt.kind # "Drop" THEN <<>>
    ELSE IF stmt.object_type # "Table" THEN <<>>
    ELSE [j \in DOMAIN stmt.names |->
            Violation(Str("DROP TABLE"),
                      <<"Dropping table '", stmt.names[j], "'">>,
                      <<"DROP TABLE", IF stmt.if_exists THEN " IF EXISTS" ELSE "", " ",
                        stmt.names[j],
                        IF stmt.cascade THEN " CASCADE" ELSE "",
                        IF stmt.restrict THEN " RESTRICT" ELSE "">>)]


\* ------------------------------------------------- pg_query statement trees
RangeVar(schemaname, relname) == [schemaname |-> schemaname, relname |-> relname]

\* a Constraint node; raw_expr is the kind of the DEFAULT expression, if any
Constraint(contype, raw_expr) ==
    [kind |-> "Constraint", contype |-> contype, raw_expr |-> raw_expr]

ColumnDef(colname, type_name, constraints) ==
    [kind |-> "ColumnDef", colname |-> colname, type_name |-> type_name,
     constraints |-> constraints]

AlterTableCmd(subtype, def) == [subtype |-> subtype, def |-> def]

AlterTableStmt(relation, cmds) ==
    [kind |-> "AlterTableStmt", relation |-> relation, cmds |-> cmds]

CreateStmt(relation, table_elts) ==
    [kind |-> "CreateStmt", relation |-> relation, table_elts |-> table_elts]

IndexElem(name) == [name |-> name]

IndexStmt(idxname, relation, index_params) ==
    [kind |-> "IndexStmt", idxname |-> idxname, relation |-> relation,
     index_params |-> index_params]

ReindexStmt(reindex_kind, relation, name, concurrently) ==
    [kind |-> "ReindexStmt", reindex_kind |-> reindex_kind, relation |-> relation,
     name |-> name, params |-> IF concurrently THEN <<"concurrently">> ELSE <<>>]

\* ------------------------------------------------------ checks/pg_helpers.rs
range_var_name(rv) ==
    IF rv.schemaname = "" THEN <<rv.relname>> ELSE <<rv.schemaname, ".", rv.relname>>

RelationName_unknown(relation) ==
    IF relation = <<>> THEN <<"?">> ELSE range_var_name(relation[1])

\* relation.as_ref().map(range_var_name).unwrap_or_default()
RelationName(relation) == IF relation = <<>> THEN <<"">> ELSE range_var_name(relation[1])

cmd_def_as_column_def(cmd) ==
    IF cmd.def = <<>> THEN <<>>
    ELSE IF cmd.def[1].kind = "ColumnDef" THEN <<cmd.def[1]>> ELSE <<>>

column_has_constraint(col, contype) ==
    \E i \in DOMAIN col.constraints : col.constraints[i].contype = contype

alter_table_cmds_or_create(node) ==
    IF node.kind = "AlterTableStmt"
    THEN <<[table |-> RelationName(node.relation),
            cmds |-> node.cmds]>>
    ELSE IF node.kind = "CreateStmt"
    THEN <<[table |-> RelationName(node.relation),
            cmds |-> [i \in DOMAIN node.table_elts |->
                         [subtype |-> "AtAddColumn", def |-> <<node.table_elts[i]>>]]]>>
    ELSE <<>>

alter_table_cmds(node) ==
    IF node.kind = "AlterTableStmt"
    THEN <<[table |-> RelationName(node.relation), cmds |-> node.cmds]>>
    ELSE <<>>

\* ---------------------------------------------------- checks/add_column.rs
is_constant_default_never(col) == FALSE

is_constant_default(col) ==
    \E i \in DOMAIN col.constraints :
        /\ col.constraints[i].contype = "ConstrDefault"
        /\ col.constraints[i].raw_expr = <<"AConst">>

\* config.postgres_version >= Some(11): None compares below every Some
VersionAtLeast(postgres_version, v) ==
    postgres_version # <<>> /\ postgres_version[1] >= v

AddColumnViolation(table, col) ==
    Violation(Str("ADD COLUMN with DEFAULT"),
              <<"Adding column '", col.colname, "' with DEFAULT on table '">> \o table \o <<"'">>,
              <<"ALTER TABLE ">> \o table \o <<" ADD COLUMN ", col.colname, " ", col.type_name>>)

AddColumnCheck(node, config) ==
    LET found == alter_table_cmds(node)
    IN  IF found = <<>> THEN <<>>
        ELSE Flatten([i \in DOMAIN found[1].cmds |->
                LET col == cmd_def_as_column_def(found[1].cmds[i])
                IN  IF col = <<>> THEN <<>>
                    ELSE IF ~column_has_constraint(col[1], "ConstrDefault") THEN <<>>
                    ELSE IF VersionAtLeast(config.postgres_version, 11) /\ is_constant_default(col[1])
                         THEN <<>>
                    ELSE <<AddColumnViolation(found[1].table, col[1])>>])

\* -------------------------------------------------------- checks/reindex.rs
\* reindex_type_name(kind): INDEX, TABLE, SCHEMA, DATABASE; SYSTEM (4) and
\* anything else give None
reindex_type_name(reindex_kind) ==
    CASE reindex_kind = 1 -> <<"INDEX">>
      [] reindex_kind = 2 -> <<"TABLE">>
      [] reindex_kind = 3 -> <<"SCHEMA">>
      [] reindex_kind = 5 -> <<"DATABASE">>
      [] OTHER -> <<>>

has_concurrently(params) == \E i \in DOMAIN params : params[i] = "concurrently"

ReindexCheck(node) ==
    IF node.kind # "ReindexStmt" THEN <<>>
    ELSE LET type_name == reindex_type_name(node.reindex_kind)
         IN  IF type_name = <<>> THEN <<>>
             ELSE IF has_concurrently(node.params) THEN <<>>
             ELSE LET target_name ==
                         IF node.reindex_kind \in {1, 2}
                         THEN (IF node.relation = <<>> THEN "" ELSE node.relation[1].relname)
                         ELSE node.name
                  IN  <<Violation(Str("REINDEX without CONCURRENTLY"),
                                  <<"REINDEX ", type_name[1], " '", target_name, "'">>,
                                  <<"REINDEX ", type_name[1], " CONCURRENTLY ", target_name>>)>>

\* ------------------------------------------------------ checks/wide_index.rs
MAX_COLUMNS == 3

WideIndexCheck(node) ==
    IF node.kind # "IndexStmt" THEN <<>>
    ELSE LET column_names ==
                [i \in DOMAIN node.index_params |->
                    IF node.index_params[i].name = "" THEN "<expr>"
                    ELSE node.index_params[i].name]
             column_count == Len(column_names)
         IN  IF column_count <= MAX_COLUMNS THEN <<>>
             ELSE LET table_name == RelationName(node.relation)
                      index_name == IF node.idxname = "" THEN "<unnamed>" ELSE node.idxname
                  IN  <<Violation(Str("CREATE INDEX with too many columns"),
                                  <<"Index '", index_name, "' on table '">> \o table_name
                                      \o <<"' has ", column_count, " columns (">> \o column_names,
                                  <<"CREATE INDEX ", index_name, " ON ">> \o table_name
                                      \o <<"(", column_names[1], ")">>)>>

\* ------------------------------------------------------- Rhai Dynamic values
\* A Dynamic is [type, val]: "()" (unit), "string" (val: the pieces), "i64",
\* "map" (val: a function from keys to Dynamics), "array" (val: a sequence).
DUnit == [type |-> "()", val |-> <<>>]
DString(s) == [type |-> "string", val |-> Str(s)]
DInt == [type |-> "i64", val |-> <<>>]
DMap(m) == [type |-> "map", val |-> m]
DArray(items) == [type |-> "array", val |-> items]

\* Option<T>: None is <<>>, Some(v) is <<v>>
None == <<>>
Some(v) == <<v>>

\* map.get(key).and_then(|v| v.clone().into_string().ok())
GetString(map, key) ==
    IF key \notin DOMAIN map THEN None
    ELSE IF map[key].type # "string" THEN None
    ELSE Some(map[key].val)

ScriptErrorOperation(check_name) == <<"SCRIPT ERROR: ", check_name>>

\* ------------------------------------------------------- scripting.rs 107-135
map_to_violation_swapped(check_name, value) ==
    IF value.type # "map" THEN None
    ELSE LET map == value.val
             operation == GetString(map, "operation")
             problem == GetString(map, "problem")
             safe_alternative == GetString(map, "safe_alternative")
         IN  IF operation # None /\ problem # None /\ safe_alternative # None
             THEN Some(Violation(operation[1], safe_alternative[1], problem[1]))
             ELSE Some(Violation(ScriptErrorOperation(check_name),
                                 <<"Custom check returned a map missing required keys">>,
                                 <<"Fix the custom check script to return all three required keys.">>))

\* fn map_to_violation(check_name, value) -> Option<Violation>
map_to_violation(check_name, value) ==
    IF value.type # "map" THEN None
    ELSE LET map == value.val
             operation == GetString(map, "operation")
             problem == GetString(map, "problem")
             safe_alternative == GetString(map, "safe_alternative")
         IN  IF operation # None /\ problem # None /\ safe_alternative # None
             THEN Some(Violation(operation[1], problem[1], safe_alternative[1]))
             ELSE Some(Violation(ScriptErrorOperation(check_name),
                                 <<"Custom check returned a map missing required keys">>,
                                 <<"Fix the custom check script to return all three required keys.">>))

\* ------------------------------------------------------- scripting.rs 75-104
parse_script_result_reversed(check_name, result) ==
    IF result.type = "()" THEN <<>>
    ELSE IF result.type = "map" THEN map_to_violation(check_name, result)
    ELSE IF result.type = "array"
         THEN Flatten([i \in DOMAIN result.val |->
                          map_to_violation(check_name, result.val[Len(result.val) + 1 - i])])
    ELSE <<Violation(ScriptErrorOperation(check_name),
                     <<"Custom check returned ", result.type, ", expected (), map, or array">>,
                     <<"Fix the custom check script to return a valid type.">>)>>

\* fn parse_script_result(check_name, result) -> Vec<Violation>
parse_script_result(check_name, result) ==
    IF result.type = "()" THEN <<>>
    ELSE IF result.type = "map" THEN map_to_violation(check_name, result)
    ELSE IF result.type = "array"
         THEN Flatten([i \in DOMAIN result.val |-> map_to_violation(check_name, result.val[i])])
    ELSE <<Violation(ScriptErrorOperation(check_name),
                     <<"Custom check returned ", result.type, ", expected (), map, or array">>,
                     <<"Fix the custom check script to return a valid type.">>)>>

\* ------------------------------------------------------- scripting.rs 197-205
\* engine.set_max_operations(100_000)
max_operations == 100000

\* A compiled script (AST) is what it does on a statement: on the statement
\* kinds in `on` it spends `ops` operations (-1: it never stops by itself)
\* and ends with `status` and `value`; on any other kind it returns unit at
\* once (`if stmt == () { return; }`).
\* engine.eval_ast_with_scope(scope, ast): Ok(value) or Err(e)
EvalAst(ast, node) ==
    IF node.kind \notin ast.on THEN [status |-> "Ok", value |-> DUnit]
    ELSE IF ast.ops = -1 \/ ast.ops > max_operations
         THEN [status |-> "ErrorTooManyOperations", value |-> DUnit]
    ELSE IF ast.status # "Ok" THEN [status |-> ast.status, value |-> DUnit]
    ELSE [status |-> "Ok", value |-> ast.value]

\* rhai::serde::to_dynamic(node): the protobuf statement trees serialise
ToDynamicOk(node) == TRUE

\* ------------------------------------------------------- scripting.rs 34-66
\* CustomCheck::check
CustomCheck_check(self, node) ==
    IF ~ToDynamicOk(node) THEN <<>>
    ELSE LET r == EvalAst(self.ast, node)
         IN  IF r.status = "Ok" THEN parse_script_result(self.name, r.value)
             ELSE <<>>


\* The same evaluation with the scope made explicit.  A scope is the set of
\* the variable names defined in it.  A script that starts with
\* `if is_def_var(reads) { return seen_value; }` and then defines the global
\* variables `defines` (`let v = ...;`) before its body sees what an earlier
\* evaluation left in the scope it is given.
ScopedAst(ast, reads, defines, seen_value) ==
    [on |-> ast.on, ops |-> ast.ops, status |-> ast.status, value |-> ast.value,
     reads |-> reads, defines |-> defines, seen_value |-> seen_value]

\* engine.eval_ast_with_scope(&mut scope, &self.ast)
eval_ast_with_scope(scope, ast, node) ==
    IF ast.reads \in scope
    THEN [status |-> "Ok", value |-> ast.seen_value, scope |-> scope]
    ELSE LET r == EvalAst(ast, node)
         IN  [status |-> r.status, value |-> r.value, scope |-> scope \cup ast.defines]

\* let mut scope = rhai::Scope::new();  `previous` is the scope of the
\* evaluation before this one, which was dropped when it returned
Scope_reused(previous) == previous

Scope_new(previous) == {}

\* CustomCheck::check, returning the scope it drops beside the violations
CustomCheck_check_scoped(self, node, previous) ==
    IF ~ToDynamicOk(node) THEN [violations |-> <<>>, scope |-> previous]
    ELSE LET scope == Scope_new(previous) \cup {"node"}
             r == eval_ast_with_scope(scope, self.ast, node)
         IN  [violations |-> IF r.status = "Ok" THEN parse_script_result(self.name, r.value)
                             ELSE <<>>,
              scope |-> r.scope]

\* ------------------------------------------------------------- file names
\* The UTF-8 bytes of the names used in the script directory.
StemBytes(stem) ==
    CASE stem = "a" -> <<97>>
      [] stem = "a-b" -> <<97, 45, 98>>
      [] stem = "loop" -> <<108, 111, 111, 112>>
      [] stem = "locked" -> <<108, 111, 99, 107, 101, 100>>
      [] stem = "zzz_check" -> <<122, 122, 122, 95, 99, 104, 101, 99, 107>>
      [] stem = "broken" -> <<98, 114, 111, 107, 101, 110>>
      [] stem = "notes" -> <<110, 111, 116, 101, 115>>
      [] stem = "DropColumnCheck" ->
            <<68, 114, 111, 112, 67, 111, 108, 117, 109, 110, 67, 104, 101, 99, 107>>

ExtBytes(ext) ==
    CASE ext = "rhai" -> <<114, 104, 97, 105>>
      [] ext = "txt" -> <<116, 120, 116>>

\* entry.file_name()
file_name(entry) == StemBytes(entry.stem) \o <<46>> \o ExtBytes(entry.ext)

\* Ord for byte strings: lexicographic, a proper prefix first
RECURSIVE LexLess(_, _)
LexLess(a, b) ==
    IF b = <<>> THEN FALSE
    ELSE IF a = <<>> THEN TRUE
    ELSE IF Head(a) # Head(b) THEN Head(a) < Head(b)
    ELSE LexLess(Tail(a), Tail(b))

\* entries.sort_by_key(|e| e.file_name()): a stable sort
RECURSIVE InsertByFileName(_, _)
InsertByFileName(sorted, e) ==
    IF sorted = <<>> THEN <<e>>
    ELSE IF LexLess(file_name(e), file_name(Head(sorted))) THEN <<e>> \o sorted
    ELSE <<Head(sorted)>> \o InsertByFileName(Tail(sorted), e)

RECURSIVE sort_by_file_name(_)
sort_by_file_name_unsorted(entries) == entries

sort_by_file_name(entries) ==
    IF entries = <<>> THEN <<>>
    ELSE InsertByFileName(sort_by_file_name(SubSeq(entries, 1, Len(entries) - 1)),
                          entries[Len(entries)])

\* ----------------------------------------------------- scripting.rs 207-282
\* A check of the registry: a built-in (ast unused) or a CustomCheck.
NoAst == [on |-> {}, ops |-> 0, status |-> "Ok", value |-> DUnit]
Builtin(name) == [name |-> name, builtin |-> TRUE, ast |-> NoAst]
CustomCheck(name, ast) == [name |-> name, builtin |-> FALSE, ast |-> ast]

ScriptError(file, message) == [file |-> file, message |-> message]

\* the loop, were a failing entry to end it
RECURSIVE LoadEntries_abort(_, _, _)
LoadEntries_abort(entries, config, acc) ==
    IF entries = <<>> THEN acc
    ELSE LET entry == Head(entries)
         IN  IF ~is_check_enabled(config, entry.stem)
             THEN LoadEntries_abort(Tail(entries), config, acc)
             ELSE IF ~entry.readable \/ ~entry.compiles
             THEN [acc EXCEPT !.errors = Append(@, ScriptError(file_name(entry), "Failed"))]
             ELSE LoadEntries_abort(Tail(entries), config,
                                    [acc EXCEPT !.checks = Append(@, CustomCheck(entry.stem, entry.ast))])

\* the `for entry in entries` loop of load_custom_checks
RECURSIVE LoadEntries(_, _, _)
LoadEntries(entries, config, acc) ==
    IF entries = <<>> THEN acc
    ELSE LET entry == Head(entries)
             stem == entry.stem
             next ==
                IF ~is_check_enabled(config, stem) THEN acc
                ELSE IF ~entry.readable
                     THEN [acc EXCEPT !.errors = Append(@, ScriptError(file_name(entry), "Failed to read"))]
                ELSE IF ~entry.compiles
                     THEN [acc EXCEPT !.errors = Append(@, ScriptError(file_name(entry), "Compilation error"))]
                ELSE [acc EXCEPT !.checks = Append(@, CustomCheck(stem, entry.ast))]
         IN  LoadEntries(Tail(entries), config, next)

load_custom_checks_all(dir_exists, listing, config) ==
    IF ~dir_exists
    THEN [checks |-> <<>>, errors |-> <<ScriptError(<<>>, "Failed to read directory")>>]
    ELSE LET entries == sort_by_file_name(SelectSeq(listing, LAMBDA e : e.ext = "rhai"))
         IN  LoadEntries(entries, Config({}, config.postgres_version),
                         [checks |-> <<>>, errors |-> <<>>])

\* fn load_custom_checks(dir, config) -> (checks, errors); `listing` is what
\* std::fs::read_dir yields, in the order the file system yields it
load_custom_checks(dir_exists, listing, config) ==
    IF ~dir_exists
    THEN [checks |-> <<>>, errors |-> <<ScriptError(<<>>, "Failed to read directory")>>]
    ELSE LET entries == sort_by_file_name(SelectSeq(listing, LAMBDA e : e.ext = "rhai"))
         IN  LoadEntries(entries, config, [checks |-> <<>>, errors |-> <<>>])

\* --------------------------------------------------- checks/mod.rs 102-167
\* the register_check calls of register_enabled_checks, in order
BuiltinChecks ==
    <<"AddColumnCheck", "AddIndexCheck", "AddJsonColumnCheck", "AddNotNullCheck",
      "AddPrimaryKeyCheck", "AddSerialColumnCheck", "AddUniqueConstraintCheck",
      "AlterColumnTypeCheck", "CharTypeCheck", "CreateExtensionCheck",
      "DropColumnCheck", "DropDatabaseCheck", "DropIndexCheck", "DropPrimaryKeyCheck",
      "DropTableCheck", "GeneratedColumnCheck", "ReindexCheck", "RenameColumnCheck",
      "RenameTableCheck", "ShortIntegerPrimaryKeyCheck", "TimestampTypeCheck",
      "TruncateTableCheck", "UnnamedConstraintCheck", "WideIndexCheck">>

\* fn register_check(&mut self, config, check)
register_check(checks, config, check) ==
    IF ~is_check_enabled(config, check.name) THEN checks
    ELSE Append(checks, check)

RECURSIVE RegisterFrom(_, _, _)
RegisterFrom(i, checks, config) ==
    IF i > Len(BuiltinChecks) THEN checks
    ELSE RegisterFrom(i + 1, register_check(checks, config, Builtin(BuiltinChecks[i])), config)

\* Registry::with_config: register_enabled_checks on an empty registry
register_enabled_checks(config) == RegisterFrom(1, <<>>, config)

\* fn add_check(&mut self, check), for every loaded check in turn
RECURSIVE add_checks(_, _)
add_checks(checks, loaded) ==
    IF loaded = <<>> THEN checks
    ELSE add_checks(Append(checks, Head(loaded)), Tail(loaded))

\* Check::check of a built-in: the checks other than the two below target
\* none of the statement kinds of this model
BuiltinCheck(name, node, config) ==
    CASE name = "AddColumnCheck" -> AddColumnCheck(node, config)
      [] name = "DropColumnCheck" -> DropColumnCheck(node)
      [] name = "DropTableCheck" -> DropTableCheck(node)
      [] name = "ReindexCheck" -> ReindexCheck(node)
      [] name = "WideIndexCheck" -> WideIndexCheck(node)
      [] OTHER -> <<>>

\* check.check(node, config) through the Check trait object
Check_check(check, node, config) ==
    IF check.builtin THEN BuiltinCheck(check.name, node, config)
    ELSE CustomCheck_check(check, node)

\* each violation is carried with the check that made it (by, k): the tag is
\* bookkeeping of the model, the Violation is v
Tag(check, k, vs) == [j \in DOMAIN vs |-> [by |-> check.name, k |-> k, v |-> vs[j]]]
Untag(tvs) == [j \in DOMAIN tvs |-> tvs[j].v]
AtStmt(i, tvs) == [j \in DOMAIN tvs |-> [stmt |-> i, by |-> tvs[j].by, k |-> tvs[j].k, v |-> tvs[j].v]]

\* fn check_node(&self, node, config): flat_map over self.checks
check_node_reversed(checks, node, config) ==
    Flatten([k \in DOMAIN checks |->
        LET r == Len(checks) + 1 - k
        IN  Tag(checks[r], r, Check_check(checks[r], node, config))])

Failed(check, node) ==
    ~check.builtin /\ EvalAst(check.ast, node).status # "Ok"

check_node_until_error(checks, node, config) ==
    LET failing == {k \in DOMAIN checks : Failed(checks[k], node)}
        upto == IF failing = {} THEN Len(checks)
                ELSE (CHOOSE k \in failing : \A q \in failing : k <= q) - 1
    IN  Flatten([k \in 1..upto |-> Tag(checks[k], k, Check_check(checks[k], node, config))])

check_node(checks, node, config) ==
    Flatten([k \in DOMAIN checks |-> Tag(checks[k], k, Check_check(checks[k], node, config))])

\* ignored_lines: (range.start_line + 1)..range.end_line, end exclusive
IgnoredLines_inclusive(ignore_ranges) ==
    UNION {r.start_line..r.end_line : r \in Range(ignore_ranges)}

IgnoredLines_late(ignore_ranges) ==
    UNION {(r.start_line + 2)..(r.end_line - 1) : r \in Range(ignore_ranges)}

IgnoredLines(ignore_ranges) ==
    UNION {(r.start_line + 1)..(r.end_line - 1) : r \in Range(ignore_ranges)}

\* fn check_stmts_with_context(&self, stmts, sql, ignore_ranges, config);
\* `invoked` records the (statement, check) pairs for which check() ran
check_stmts_with_context(checks, stmts, sql, ignore_ranges, config) ==
    LET ignored_lines == IgnoredLines(ignore_ranges)
        token_starts == non_comment_token_starts(sql)
        loop[i \in 0..Len(stmts)] ==
            IF i = 0 THEN [violations |-> <<>>, invoked |-> {}]
            ELSE LET acc == loop[i - 1]
                     raw_stmt == stmts[i]
                 IN  IF raw_stmt.node.kind = "None" THEN acc
                     ELSE LET offset == first_token_at_or_after(token_starts, raw_stmt.stmt_location)
                              stmt_line == byte_offset_to_line(sql, offset)
                          IN  IF stmt_line \notin ignored_lines
                              THEN [violations |-> acc.violations
                                                  \o AtStmt(i, check_node(checks, raw_stmt.node, config)),
                                    invoked |-> acc.invoked \cup {<<i, k>> : k \in DOMAIN checks}]
                              ELSE acc
    IN  loop[Len(stmts)]

\* ------------------------------------------------------------ input files
\* A RawStmt: the node (or none) and stmt_location, the byte offset at which
\* the parser says the statement starts: 0 for the first statement, the
\* byte after the previous statement's `;` for the others.
RawStmt(node, stmt_location) == [node |-> node, stmt_location |-> stmt_location]

IgnoreRange(start_line, end_line) == [start_line |-> start_line, end_line |-> end_line]

\* comment_parser::CommentParser::parse_ignore_ranges: each
\* safety-assured:start comment is closed by the next safety-assured:end
\* comment; one IgnoreRange per pair, holding the two marker lines
RECURSIVE ParseMarkers(_, _, _)
ParseMarkers(sql, i, open) ==
    IF i > Len(sql) THEN <<>>
    ELSE IF sql[i] = "S" /\ open = 0
         THEN ParseMarkers(sql, i + 1, byte_offset_to_line(sql, i - 1))
    ELSE IF sql[i] = "E" /\ open # 0
         THEN <<IgnoreRange(open, byte_offset_to_line(sql, i - 1))>> \o ParseMarkers(sql, i + 1, 0)
    ELSE ParseMarkers(sql, i + 1, open)

parse_ignore_ranges_to_last_end(sql) ==
    LET R == ParseMarkers(sql, 1, 0)
    IN  [i \in DOMAIN R |-> IgnoreRange(R[i].start_line, R[Len(R)].end_line)]

parse_ignore_ranges(sql) == ParseMarkers(sql, 1, 0)

\* A migration file written line by line: each line holds a statement (one
\* token, its `;` included), a marker comment, or a statement followed by a
\* marker comment.
Marker(m) == [stmt |-> <<>>, marker |-> m]
Statement(node) == [stmt |-> <<node>>, marker |-> ""]
StatementThenMarker(node, m) == [stmt |-> <<node>>, marker |-> m]

LineBytes(item) ==
    (IF item.stmt # <<>> THEN <<"T">> ELSE <<>>)
    \o (IF item.marker # "" THEN <<item.marker>> ELSE <<>>)
    \o <<"nl">>

RECURSIVE LayoutSql(_)
LayoutSql(items) ==
    IF items = <<>> THEN <<>>
    ELSE LineBytes(Head(items)) \o LayoutSql(Tail(items))

\* the RawStmts the parser returns for the layout: `at` is the offset of the
\* current line, `loc` the stmt_location of the next statement (0 for the
\* first, then the byte after the previous statement's `;`)
RECURSIVE LayoutStmts(_, _, _)
LayoutStmts(items, at, loc) ==
    IF items = <<>> THEN <<>>
    ELSE IF Head(items).stmt = <<>>
         THEN LayoutStmts(Tail(items), at + Len(LineBytes(Head(items))), loc)
    ELSE <<RawStmt(Head(items).stmt[1], loc)>>
         \o LayoutStmts(Tail(items), at + Len(LineBytes(Head(items))), at + 1)

\* every start marker is closed before the next one and no end marker is stray
RECURSIVE MarkersBalanced(_, _)
MarkersBalanced(items, open) ==
    IF items = <<>> THEN ~open
    ELSE IF Head(items).marker = "S" THEN ~open /\ MarkersBalanced(Tail(items), TRUE)
    ELSE IF Head(items).marker = "E" THEN open /\ MarkersBalanced(Tail(items), FALSE)
    ELSE MarkersBalanced(Tail(items), open)

LayoutFile(items) ==
    [sql |-> LayoutSql(items),
     stmts |-> LayoutStmts(items, 0, 0),
     ignore_ranges |-> parse_ignore_ranges(LayoutSql(items))]

\* --------------------------------------------------------------- the state
VARIABLES
    dir,            \* the custom-checks directory on disk: [exists, files]
    config,         \* Config (the fields the checks read)
    checks,         \* Registry.checks
    load_errors,    \* the ScriptErrors load_custom_checks returned
    sql, stmts, ignore_ranges,   \* the file handed to check_stmts_with_context
    violations,     \* what check_stmts_with_context returned
    tagged,         \* the same violations, each with the check that made it
    invoked,        \* the (statement, check) pairs on which check() ran
    pc,             \* "new", "registered", "loaded", "checked"
    rsql, roffset, rline, rpc,   \* line resolution taken alone
    script_name, script_result, script_violations, spc,   \* decoding a script's result
    eval_check, eval_node, eval_ops, eval_status, eval_violations, epc,
                    \* one evaluation of a script, operation by operation
    chk_name, chk_node, chk_config, chk_result, cpc,   \* one built-in check on one tree
    run_scope,      \* the rhai::Scope the last script evaluation left behind
    runs,           \* the evaluations made so far: [check, node, config, result]
    ppc,            \* "off" or "on"
    names_cell, names_result, names_calls,   \* the LazyLock BUILTIN_CHECK_NAMES and the calls that read it
    w_file, w_pos, w_acc, w_scope, wpc,   \* workers checking files on one registry: file, next statement, violations so far; the scope last dropped
    sc_config, sc_sql, sc_parsed, sc_result, sc_files, sc_pos, sc_results, sc_outcome, scpc,   \* a SafetyChecker: check_sql on one text, check_directory over the collected files
    start_after, migration_timestamp, should_check, fpc   \* the start_after filter applied to one migration

vars == <<dir, config, checks, load_errors, sql, stmts, ignore_ranges,
          violations, tagged, invoked, pc, rsql, roffset, rline, rpc,
          script_name, script_result, script_violations, spc,
          eval_check, eval_node, eval_ops, eval_status, eval_violations, epc,
          chk_name, chk_node, chk_config, chk_result, cpc, run_scope, runs, ppc,
          names_cell, names_result, names_calls,
          w_file, w_pos, w_acc, w_scope, wpc,
          sc_config, sc_sql, sc_parsed, sc_result, sc_files, sc_pos, sc_results, sc_outcome, scpc,
          start_after, migration_timestamp, should_check, fpc>>

registryVars == <<dir, config, checks, load_errors, sql, stmts, ignore_ranges,
                  violations, tagged, invoked, pc>>
resolveVars == <<rsql, roffset, rline, rpc>>
scriptVars == <<script_name, script_result, script_violations, spc>>
evalVars == <<eval_check, eval_node, eval_ops, eval_status, eval_violations, epc>>
checkVars == <<chk_name, chk_node, chk_config, chk_result, cpc>>
pureVars == <<run_scope, runs, ppc>>

\* ---------------------------------------------- further groups of variables
namesVars == <<names_cell, names_result, names_calls>>
workerVars == <<w_file, w_pos, w_acc, w_scope, wpc>>
checkerVars == <<sc_config, sc_sql, sc_parsed, sc_result, sc_files, sc_pos, sc_results, sc_outcome, scpc>>
filterVars == <<start_after, migration_timestamp, should_check, fpc>>
laterVars == <<namesVars, workerVars, checkerVars, filterVars>>
allBut_namesVars == <<registryVars, resolveVars, scriptVars, evalVars, checkVars, pureVars, workerVars, checkerVars, filterVars>>
allBut_workerVars == <<registryVars, resolveVars, scriptVars, evalVars, checkVars, pureVars, namesVars, checkerVars, filterVars>>
allBut_checkerVars == <<registryVars, resolveVars, scriptVars, evalVars, checkVars, pureVars, namesVars, workerVars, filterVars>>
allBut_filterVars == <<registryVars, resolveVars, scriptVars, evalVars, checkVars, pureVars, namesVars, workerVars, checkerVars>>

\* ------------------------------------------------------------ bounded inputs
GoodMap(op) ==
    DMap([operation |-> DString(op), problem |-> DString("p"), safe_alternative |-> DString("s")])

ScriptFile(stem, ext, compiles, ast) ==
    [stem |-> stem, ext |-> ext, readable |-> TRUE, compiles |-> compiles, ast |-> ast]

Ast(on, ops, status, value) == [on |-> on, ops |-> ops, status |-> status, value |-> value]

AllScriptFiles ==
    { ScriptFile("a", "rhai", TRUE, Ast({"AlterTable", "Drop"}, 10, "Ok", GoodMap("CUSTOM"))),
      ScriptFile("a-b", "rhai", TRUE, Ast({"AlterTable", "Drop"}, 10, "ErrorRuntime", DUnit)),
      ScriptFile("loop", "rhai", TRUE, Ast({"AlterTable", "Drop"}, -1, "Ok", DUnit)),
      ScriptFile("DropColumnCheck", "rhai", TRUE,
                 Ast({"AlterTable"}, 10, "Ok", DArray(<<GoodMap("x1"), GoodMap("x2")>>))),
      ScriptFile("broken", "rhai", FALSE, NoAst),
      ScriptFile("notes", "txt", TRUE, NoAst) }

NoDir == [exists |-> FALSE, files |-> {}]
Dirs(n) == {NoDir} \cup {[exists |-> TRUE, files |-> d] :
                            d \in {x \in SUBSET AllScriptFiles : Cardinality(x) <= n}}

\* the orders in which read_dir may yield the files
Listings(files) ==
    {s \in [1..Cardinality(files) -> files] : \A i, j \in DOMAIN s : i # j => s[i] # s[j]}

DisableNames == {"DropColumnCheck", "a", "Bogus"}

LayoutItems ==
    { Marker("S"), Marker("E"),
      Statement(AlterTableDropColumn("t", <<"c">>)),
      Statement(DropTable(<<"a", "b">>)),
      Statement(NoNode),
      StatementThenMarker(AlterTableDropColumn("t", <<"c">>), "S"),
      StatementThenMarker(AlterTableDropColumn("t", <<"c">>), "E") }

\* the file of the DROP COLUMN c / DROP COLUMN d scenario
ScenarioItems ==
    << Marker("S"), Statement(AlterTableDropColumn("t", <<"c">>)), Marker("E"),
       Statement(AlterTableDropColumn("t", <<"d">>)) >>

LayoutFiles ==
    {LayoutFile(items) :
        items \in {x \in SeqsUpTo(LayoutItems, MaxItems) : MarkersBalanced(x, FALSE)}
                  \cup {ScenarioItems}}

\* ------------------------------------------------------------------ actions
InitRegistry(DS) ==
    /\ dir \in DS
    /\ config = Config({}, <<>>)
    /\ checks = <<>>
    /\ load_errors = <<>>
    /\ sql = <<>> /\ stmts = <<>> /\ ignore_ranges = <<>>
    /\ violations = <<>> /\ tagged = <<>> /\ invoked = {}
    /\ pc = "new"

NoResolve == rsql = <<>> /\ roffset = 0 /\ rline = 0 /\ rpc = "off"

NoScript ==
    script_name = "" /\ script_result = DUnit /\ script_violations = <<>> /\ spc = "off"

NoEval ==
    /\ eval_check = CustomCheck("", NoAst) /\ eval_node = NoNode /\ eval_ops = 0
    /\ eval_status = "" /\ eval_violations = <<>> /\ epc = "off"

NoCheck ==
    /\ chk_name = "" /\ chk_node = NoNode /\ chk_config = Config({}, <<>>)
    /\ chk_result = <<>> /\ cpc = "off"

NoPure == run_scope = {} /\ runs = {} /\ ppc = "off"

\* ---------------------------------------------- the further groups at rest
NoNames ==
    names_cell = <<>> /\ names_result = <<>> /\ names_calls = 0

NoWorkers ==
    w_file = <<>> /\ w_pos = <<>> /\ w_acc = <<>> /\ w_scope = {} /\ wpc = "off"

NoChecker ==
    sc_config = <<>> /\ sc_sql = <<>> /\ sc_parsed = <<>> /\ sc_result = <<>> /\ sc_files = <<>> /\ sc_pos = 0 /\ sc_results = <<>> /\ sc_outcome = <<>> /\ scpc = "off"

NoFilter ==
    start_after = <<>> /\ migration_timestamp = <<>> /\ should_check = <<>> /\ fpc = "off"

NoLater == NoNames /\ NoWorkers /\ NoChecker /\ NoFilter

Idle_namesVars ==
    /\ NoResolve /\ NoScript /\ NoEval /\ NoCheck /\ NoPure /\ NoWorkers /\ NoChecker /\ NoFilter

Idle_workerVars ==
    /\ NoResolve /\ NoScript /\ NoEval /\ NoCheck /\ NoPure /\ NoNames /\ NoChecker /\ NoFilter

Idle_checkerVars ==
    /\ NoResolve /\ NoScript /\ NoEval /\ NoCheck /\ NoPure /\ NoNames /\ NoWorkers /\ NoFilter

Idle_filterVars ==
    /\ NoResolve /\ NoScript /\ NoEval /\ NoCheck /\ NoPure /\ NoNames /\ NoWorkers /\ NoChecker

\* Registry::with_config(&config)
WithConfig ==
    /\ pc = "new"
    /\ \E d \in SUBSET DisableNames :
          /\ config' = Config(d, <<>>)
          /\ checks' = register_enabled_checks(config')
    /\ pc' = "registered"
    /\ UNCHANGED <<dir, load_errors, sql, stmts, ignore_ranges, violations, tagged, invoked>>
    /\ UNCHANGED <<resolveVars, scriptVars, evalVars, checkVars, pureVars>>
    /\ UNCHANGED laterVars

\* load_custom_checks(dir, &config), then registry.add_check for each check
LoadCustomChecks ==
    /\ pc = "registered"
    /\ \E listing \in Listings(dir.files) :
          LET r == load_custom_checks(dir.exists, listing, config)
          IN  /\ checks' = add_checks(checks, r.checks)
              /\ load_errors' = r.errors
    /\ pc' = "loaded"
    /\ UNCHANGED <<dir, config, sql, stmts, ignore_ranges, violations, tagged, invoked>>
    /\ UNCHANGED <<resolveVars, scriptVars, evalVars, checkVars, pureVars>>
    /\ UNCHANGED laterVars

\* registry.check_stmts_with_context(&stmts, sql, &ignore_ranges, &config)
CheckStmtsWithContext ==
    /\ pc = "loaded"
    /\ \E f \in LayoutFiles :
          LET r == check_stmts_with_context(checks, f.stmts, f.sql, f.ignore_ranges, config)
          IN  /\ sql' = f.sql
              /\ stmts' = f.stmts
              /\ ignore_ranges' = f.ignore_ranges
              /\ violations' = Untag(r.violations)
              /\ tagged' = r.violations
              /\ invoked' = r.invoked
    /\ pc' = "checked"
    /\ UNCHANGED <<dir, config, checks, load_errors>>
    /\ UNCHANGED <<resolveVars, scriptVars, evalVars, checkVars, pureVars>>
    /\ UNCHANGED laterVars

Init == InitRegistry(Dirs(MaxScripts)) /\ NoResolve /\ NoScript /\ NoEval /\ NoCheck /\ NoPure /\ NoLater

Next ==
    \/ WithConfig
    \/ LoadCustomChecks
    \/ CheckStmtsWithContext

Spec == Init /\ [][Next]_vars


\* ------------------------------------ directories with scripts that fail to load
UnreadableFile(stem) == [ScriptFile(stem, "rhai", FALSE, NoAst) EXCEPT !.readable = FALSE]

LoadScriptFiles ==
    { ScriptFile("a", "rhai", TRUE, Ast({"AlterTable", "Drop"}, 10, "Ok", GoodMap("CUSTOM"))),
      ScriptFile("zzz_check", "rhai", TRUE, Ast({"AlterTable"}, 10, "Ok", GoodMap("zzz_check"))),
      ScriptFile("broken", "rhai", FALSE, NoAst),
      UnreadableFile("locked") }

LoadDirs(n) ==
    {[exists |-> TRUE, files |-> d] :
        d \in {x \in SUBSET LoadScriptFiles : Cardinality(x) <= n}}

InitLoad == InitRegistry(LoadDirs(MaxScripts)) /\ NoResolve /\ NoScript /\ NoEval /\ NoCheck /\ NoPure /\ NoLater

SpecLoad == InitLoad /\ [][Next]_vars

\* ------------------------------------------------- line resolution, alone
InitResolve ==
    /\ InitRegistry({NoDir})
    /\ rsql \in SourcesUpTo(MaxSrcLen)
    /\ roffset \in 0..(MaxSrcLen + 1)
    /\ rline = 0
    /\ rpc = "input"
    /\ NoScript /\ NoEval /\ NoCheck /\ NoPure /\ NoLater

Resolve ==
    /\ rpc = "input"
    /\ rline' = StmtLine(rsql, roffset)
    /\ rpc' = "resolved"
    /\ UNCHANGED <<rsql, roffset>>
    /\ UNCHANGED <<registryVars, scriptVars, evalVars, checkVars, pureVars>>
    /\ UNCHANGED laterVars

NextResolve == Resolve

SpecResolve == InitResolve /\ [][NextResolve]_vars


\* --------------------------------------- decoding a script's result, alone
RequiredKeys == {"operation", "problem", "safe_alternative"}

\* maps over the required keys and a misspelt one, each with a string or an
\* integer value
ScriptMaps ==
    UNION {[D -> {DString("v"), DInt}] : D \in SUBSET (RequiredKeys \cup {"opration"})}

ArrayElements ==
    { GoodMap("x"), GoodMap("y"), GoodMap(""),
      DMap([operation |-> DString("v"), problem |-> DString("v")]),
      DMap([operation |-> DString("v"), problem |-> DString("v"), safe_alternative |-> DInt]),
      DInt, DUnit, DArray(<<>>) }

ScriptResults ==
    {DUnit, DInt, DString("s")}
    \cup {DMap(m) : m \in ScriptMaps}
    \cup {e \in ArrayElements : e.type = "map"}
    \cup {DArray(a) : a \in SeqsUpTo(ArrayElements, MaxArrayLen)}

InitScript ==
    /\ InitRegistry({NoDir}) /\ NoResolve /\ NoEval /\ NoCheck /\ NoPure /\ NoLater
    /\ script_name \in {"a", "my_check"}
    /\ script_result \in ScriptResults
    /\ script_violations = <<>>
    /\ spc = "input"

\* Ok(result) => parse_script_result(self.name, result)
ParseScriptResult ==
    /\ spc = "input"
    /\ script_violations' = parse_script_result(script_name, script_result)
    /\ spc' = "parsed"
    /\ UNCHANGED <<script_name, script_result>>
    /\ UNCHANGED <<registryVars, resolveVars, evalVars, checkVars, pureVars>>
    /\ UNCHANGED laterVars

NextScript == ParseScriptResult

SpecScript == InitScript /\ [][NextScript]_vars


\* ------------------------- one evaluation of a script, operation by operation
\* the operations the script needs on the node before it ends by itself
\* (-1: it loops for ever)
OperationsNeeded(ast, node) == IF node.kind \notin ast.on THEN 1 ELSE ast.ops

\* the engine counts every operation and stops the script once the count
\* passes max_operations (0 would mean no limit)
BudgetExceeded_never(ops) == FALSE

BudgetExceeded(ops) == max_operations > 0 /\ ops > max_operations

EvalScripts ==
    {CustomCheck(f.stem, f.ast) : f \in {x \in AllScriptFiles : x.ext = "rhai" /\ x.compiles}}

InitEval ==
    /\ InitRegistry({NoDir}) /\ NoResolve /\ NoScript /\ NoCheck /\ NoPure /\ NoLater
    /\ eval_check \in EvalScripts
    /\ eval_node \in {AlterTableDropColumn("t", <<"c">>), SelectStmt}
    /\ eval_ops = 0
    /\ eval_status = ""
    /\ eval_violations = <<>>
    /\ epc = "running"

\* engine.eval_ast_with_scope(&mut scope, &self.ast), one operation further,
\* and the match on its result once it has ended
EvalStep ==
    /\ epc = "running"
    /\ eval_ops <= max_operations
    /\ LET ops == eval_ops + 1
           ast == eval_check.ast
       IN  /\ eval_ops' = ops
           /\ IF BudgetExceeded(ops)
              THEN /\ eval_status' = "ErrorTooManyOperations"
                   /\ eval_violations' = <<>>
                   /\ epc' = "done"
              ELSE IF ops = OperationsNeeded(ast, eval_node)
              THEN /\ eval_status' = IF eval_node.kind \in ast.on THEN ast.status ELSE "Ok"
                   /\ eval_violations' =
                         IF eval_status' # "Ok" THEN <<>>
                         ELSE parse_script_result(eval_check.name,
                                 IF eval_node.kind \in ast.on THEN ast.value ELSE DUnit)
                   /\ epc' = "done"
              ELSE UNCHANGED <<eval_status, eval_violations, epc>>
    /\ UNCHANGED <<eval_check, eval_node>>
    /\ UNCHANGED <<registryVars, resolveVars, scriptVars, checkVars, pureVars>>
    /\ UNCHANGED laterVars

NextEval == EvalStep

\* the evaluation is a synchronous call: it goes on while it can
SpecEval == InitEval /\ [][NextEval]_vars /\ WF_vars(EvalStep)


\* ------------------------------ a run of evaluations, one after the other
MaxRuns == 3

PureNodes ==
    { AlterTableDropColumn("t", <<"c">>),
      AlterTableStmt(<<RangeVar("", "t")>>,
                     <<AlterTableCmd("AtAddColumn",
                           <<ColumnDef("c", "int4", <<Constraint("ConstrDefault", <<"AConst">>)>>)>>)>>),
      SelectStmt }

PureConfigs == { Config({}, <<>>), Config({}, <<11>>) }

\* two scripts: one that looks at the statement only, and one that returns
\* a violation once the variable `seen`, which it defines itself, exists
PureChecks ==
    { Builtin("AddColumnCheck"),
      CustomCheck("a", ScopedAst(Ast({"AlterTable", "AlterTableStmt"}, 10, "Ok", GoodMap("CUSTOM")),
                                 "", {}, DUnit)),
      CustomCheck("remember", ScopedAst(Ast({"AlterTable"}, 10, "Ok", DUnit),
                                        "seen", {"seen"}, GoodMap("SEEN"))) }

InitPure ==
    /\ InitRegistry({NoDir}) /\ NoResolve /\ NoScript /\ NoEval /\ NoCheck /\ NoLater
    /\ run_scope = {}
    /\ runs = <<>>
    /\ ppc = "on"

Run(check, node, cfg, result) ==
    [check |-> check.name, node |-> node, config |-> cfg, result |-> result]

\* check.check(node, config) on a built-in check: no scope is involved
EvaluateBuiltin ==
    /\ ppc = "on" /\ Len(runs) < MaxRuns
    /\ \E c \in PureChecks, n \in PureNodes, cfg \in PureConfigs :
          /\ c.builtin
          /\ runs' = Append(runs, Run(c, n, cfg, BuiltinCheck(c.name, n, cfg)))
    /\ UNCHANGED <<run_scope, ppc>>
    /\ UNCHANGED <<registryVars, resolveVars, scriptVars, evalVars, checkVars>>
    /\ UNCHANGED laterVars

\* check.check(node, config) on a script
EvaluateScript ==
    /\ ppc = "on" /\ Len(runs) < MaxRuns
    /\ \E c \in PureChecks, n \in PureNodes, cfg \in PureConfigs :
          /\ ~c.builtin
          /\ LET r == CustomCheck_check_scoped(c, n, run_scope)
             IN  /\ runs' = Append(runs, Run(c, n, cfg, r.violations))
                 /\ run_scope' = r.scope
    /\ UNCHANGED ppc
    /\ UNCHANGED <<registryVars, resolveVars, scriptVars, evalVars, checkVars>>
    /\ UNCHANGED laterVars

NextPure ==
    \/ EvaluateBuiltin
    \/ EvaluateScript

SpecPure == InitPure /\ [][NextPure]_vars


\* ------------------------------------ one built-in check on one statement tree
MaxCmds == 2
MaxTargets == 3
MaxIndexColumns == 4

NonEmptySeqsUpTo(S, n) == SeqsUpTo(S, n) \ {<<>>}

DefaultExprs == {"AConst", "FuncCall", "TypeCast", "AExpr"}

\* the constraint lists of a column: none, NOT NULL, one DEFAULT, both
ConstraintLists ==
    {<<>>, <<Constraint("ConstrNotnull", <<>>)>>}
    \cup {<<Constraint("ConstrDefault", <<e>>)>> : e \in DefaultExprs}
    \cup {<<Constraint("ConstrNotnull", <<>>), Constraint("ConstrDefault", <<"AConst">>)>>}

ColumnDefs ==
    {ColumnDef("c", "int4", cl) : cl \in ConstraintLists}
    \cup {ColumnDef("d", "text", <<Constraint("ConstrDefault", <<e>>)>>) : e \in {"AConst", "FuncCall"}}

\* ADD COLUMN; ALTER COLUMN TYPE (a ColumnDef without constraints); DROP
\* COLUMN (no def); ADD CONSTRAINT (def is a Constraint)
AlterTableCmds ==
    {AlterTableCmd("AtAddColumn", <<col>>) : col \in ColumnDefs}
    \cup {AlterTableCmd("AtAlterColumnType", <<ColumnDef("c", "int8", <<>>)>>),
          AlterTableCmd("AtDropColumn", <<>>),
          AlterTableCmd("AtAddConstraint", <<Constraint("ConstrCheck", <<"AExpr">>)>>)}

Relations == {<<>>, <<RangeVar("", "t")>>}

AlterTableStmts ==
    {AlterTableStmt(rel, cmds) : rel \in Relations, cmds \in SeqsUpTo(AlterTableCmds, MaxCmds)}

CreateStmts ==
    {CreateStmt(rel, <<col>>) :
        rel \in Relations,
        col \in {ColumnDef("c", "int4", <<Constraint("ConstrDefault", <<e>>)>>) : e \in {"AConst", "FuncCall"}}}

IndexStmts ==
    {IndexStmt(idxname, rel, [i \in DOMAIN names |-> IndexElem(names[i])]) :
        idxname \in {"", "i"},
        rel \in Relations \cup {<<RangeVar("s", "t")>>},
        names \in SeqsUpTo({"", "a"}, MaxIndexColumns)}

ReindexStmts ==
    {ReindexStmt(k, rel, name, concurrently) :
        k \in 0..5, rel \in Relations, name \in {"", "public"}, concurrently \in BOOLEAN}

TargetNames == {"a", "b", "c"}

AlterTables ==
    {AlterTable("t", <<DropColumnOp(cols, e)>>) :
        cols \in NonEmptySeqsUpTo(TargetNames, MaxTargets), e \in BOOLEAN}
    \cup {AlterTable("t", <<DropColumnOp(<<"a">>, FALSE), AddColumnOp, DropColumnOp(cols, FALSE)>>) :
            cols \in NonEmptySeqsUpTo(TargetNames, MaxTargets)}

Drops ==
    {Drop(object_type, names, e) :
        object_type \in {"Table", "Index"},
        names \in NonEmptySeqsUpTo(TargetNames, MaxTargets), e \in BOOLEAN}

CheckNodes ==
    AlterTableStmts \cup CreateStmts \cup IndexStmts \cup ReindexStmts
    \cup AlterTables \cup Drops \cup {SelectStmt}

CheckNames ==
    {"AddColumnCheck", "DropColumnCheck", "DropTableCheck", "ReindexCheck", "WideIndexCheck"}

CheckConfigs == {Config({}, v) : v \in {<<>>, <<10>>, <<11>>, <<12>>}}

InitCheck ==
    /\ InitRegistry({NoDir}) /\ NoResolve /\ NoScript /\ NoEval /\ NoPure /\ NoLater
    /\ chk_name \in CheckNames
    /\ chk_node \in CheckNodes
    /\ chk_config \in CheckConfigs
    /\ chk_result = <<>>
    /\ cpc = "input"

\* check.check(node, config)
ApplyCheck ==
    /\ cpc = "input"
    /\ chk_result' = BuiltinCheck(chk_name, chk_node, chk_config)
    /\ cpc' = "checked"
    /\ UNCHANGED <<chk_name, chk_node, chk_config>>
    /\ UNCHANGED <<registryVars, resolveVars, scriptVars, evalVars, pureVars>>
    /\ UNCHANGED laterVars

NextCheck == ApplyCheck

SpecCheck == InitCheck /\ [][NextCheck]_vars


\* ------------------------------------- Registry::builtin_check_names()
MaxCalls == 2

Config_default_disabling == Config({"DropColumnCheck"}, <<>>)

\* Config::default()
Config_default == Config({}, <<>>)

\* Registry::new()
Registry_new == register_enabled_checks(Config_default)

\* LazyLock::new(|| { let registry = Registry::new();
\*                    registry.checks.iter().map(|c| c.name()).collect() })
BUILTIN_CHECK_NAMES == [k \in DOMAIN Registry_new |-> Registry_new[k].name]

\* Registry::builtin_check_names(): the first read fills the cell
BuiltinCheckNames ==
    /\ names_calls < MaxCalls
    /\ names_cell' = IF names_cell = <<>> THEN <<BUILTIN_CHECK_NAMES>> ELSE names_cell
    /\ names_result' = names_cell'
    /\ names_calls' = names_calls + 1
    /\ UNCHANGED allBut_namesVars

InitNames == InitRegistry(Dirs(MaxScripts)) /\ Idle_namesVars /\ NoNames

NextNames ==
    \/ WithConfig
    \/ LoadCustomChecks
    \/ BuiltinCheckNames

SpecNames == InitNames /\ [][NextNames]_vars

\* --------------------------- workers checking files on one shared registry
NumWorkers == 2

Workers == 1..NumWorkers

\* check_node with the scope of each script evaluation made explicit: the
\* checks run in registry order, each script in the scope CustomCheck::check
\* builds for it
RECURSIVE CheckNodeFrom(_, _, _, _, _)
CheckNodeFrom(k, reg, node, cfg, acc) ==
    IF k > Len(reg) THEN acc
    ELSE IF reg[k].builtin
         THEN CheckNodeFrom(k + 1, reg, node, cfg,
                  [acc EXCEPT !.violations = @ \o BuiltinCheck(reg[k].name, node, cfg)])
    ELSE LET r == CustomCheck_check_scoped(reg[k], node, acc.scope)
         IN  CheckNodeFrom(k + 1, reg, node, cfg,
                  [violations |-> acc.violations \o r.violations, scope |-> r.scope])

check_node_scoped(reg, node, cfg, previous) ==
    CheckNodeFrom(1, reg, node, cfg, [violations |-> <<>>, scope |-> previous])

\* a registry after construction: two built-in checks, then two scripts
WorkerRegistry ==
    << Builtin("DropColumnCheck"), Builtin("DropTableCheck"),
       CustomCheck("a", ScopedAst(Ast({"AlterTable", "Drop"}, 10, "Ok", GoodMap("CUSTOM")),
                                  "", {}, DUnit)),
       CustomCheck("remember", ScopedAst(Ast({"AlterTable"}, 10, "Ok", DUnit),
                                         "seen", {"seen"}, GoodMap("SEEN"))) >>

WorkerItems ==
    { Marker("S"), Marker("E"),
      Statement(AlterTableDropColumn("t", <<"c">>)),
      Statement(DropTable(<<"a", "b">>)) }

WorkerFiles ==
    {LayoutFile(items) :
        items \in {x \in SeqsUpTo(WorkerItems, MaxItems) : MarkersBalanced(x, FALSE)}}

InitWorkers ==
    /\ dir = NoDir
    /\ config = Config_default
    /\ checks = WorkerRegistry
    /\ load_errors = <<>>
    /\ sql = <<>> /\ stmts = <<>> /\ ignore_ranges = <<>>
    /\ violations = <<>> /\ tagged = <<>> /\ invoked = {}
    /\ pc = "loaded"
    /\ Idle_workerVars
    /\ w_file \in [Workers -> WorkerFiles]
    /\ w_pos = [w \in Workers |-> 1]
    /\ w_acc = [w \in Workers |-> <<>>]
    /\ w_scope = {}
    /\ wpc = "on"

\* one turn of the `for raw_stmt in stmts` loop of check_stmts_with_context,
\* made by one worker on its own file
WorkerStep ==
    /\ wpc = "on"
    /\ \E w \in Workers :
          /\ w_pos[w] <= Len(w_file[w].stmts)
          /\ LET f == w_file[w]
                 raw_stmt == f.stmts[w_pos[w]]
                 offset == first_token_at_or_after(non_comment_token_starts(f.sql),
                                                   raw_stmt.stmt_location)
                 stmt_line == byte_offset_to_line(f.sql, offset)
             IN  IF raw_stmt.node.kind # "None" /\ stmt_line \notin IgnoredLines(f.ignore_ranges)
                 THEN LET r == check_node_scoped(checks, raw_stmt.node, config, w_scope)
                      IN  /\ w_acc' = [w_acc EXCEPT ![w] = @ \o r.violations]
                          /\ w_scope' = r.scope
                 ELSE UNCHANGED <<w_acc, w_scope>>
          /\ w_pos' = [w_pos EXCEPT ![w] = @ + 1]
    /\ UNCHANGED <<w_file, wpc>>
    /\ UNCHANGED allBut_workerVars

NextWorkers == WorkerStep

SpecWorkers == InitWorkers /\ [][NextWorkers]_vars

\* --------------------------------- the ignore ranges of a file, alone
MaxMarkerLines == 4

\* lines with markers in any order, balanced or not
MarkerLines ==
    { Marker("S"), Marker("E"), Statement(SelectStmt),
      StatementThenMarker(SelectStmt, "S"), StatementThenMarker(SelectStmt, "E") }

InitRanges ==
    /\ dir = NoDir
    /\ config = Config_default
    /\ checks = <<>>
    /\ load_errors = <<>>
    /\ sql \in {LayoutSql(items) : items \in SeqsUpTo(MarkerLines, MaxMarkerLines)}
    /\ stmts = <<>> /\ ignore_ranges = <<>>
    /\ violations = <<>> /\ tagged = <<>> /\ invoked = {}
    /\ pc = "source"
    /\ NoResolve /\ NoScript /\ NoEval /\ NoCheck /\ NoPure /\ NoLater

\* let ignore_ranges = CommentParser::parse_ignore_ranges(sql)?
ParseIgnoreRanges ==
    /\ pc = "source"
    /\ ignore_ranges' = parse_ignore_ranges(sql)
    /\ pc' = "ranges"
    /\ UNCHANGED <<dir, config, checks, load_errors, sql, stmts, violations, tagged, invoked>>
    /\ UNCHANGED <<resolveVars, scriptVars, evalVars, checkVars, pureVars>>
    /\ UNCHANGED laterVars

NextRanges == ParseIgnoreRanges

SpecRanges == InitRanges /\ [][NextRanges]_vars

\* ------------------------------- parser/mod.rs, parser/reindex_detector.rs
\* The SQL text of a migration is written one statement a line, and each
\* statement is known by its kind: the two kinds sqlparser parses, a
\* statement it rejects, the three forms it rejects that detect_safe_pattern
\* knows, and REINDEX (rejected too) without and with CONCURRENTLY. The
\* texts carry no safety-assured marker, so parse_ignore_ranges succeeds
\* with no range.
MaxStmts == 2

ParsedKinds == {"DropColumn", "Select"}
SafePatternKinds == {"UniqueUsingIndex", "PrimaryKeyUsingIndex", "DropIndexConcurrently"}
StatementKinds ==
    ParsedKinds \cup SafePatternKinds \cup {"Garbage", "Reindex", "ReindexConcurrently"}

NodeOf(kind) ==
    IF kind = "DropColumn" THEN AlterTableDropColumn("users", <<"email">>)
    ELSE SelectStmt

TextLines(text) == [i \in DOMAIN text |-> Statement(NodeOf(text[i]))]

Contains(text, kind) == \E i \in DOMAIN text : text[i] = kind

\* Result<ParsedSql>: Ok(ParsedSql { statements, sql, ignore_ranges }) or Err
ParsedSql(statements, bytes, ranges) ==
    [ok |-> TRUE, statements |-> statements, sql |-> bytes, ignore_ranges |-> ranges]

ParseError == [ok |-> FALSE, statements |-> <<>>, sql |-> <<>>, ignore_ranges |-> <<>>]

\* SqlParser::parse: the parse of the whole text fails when sqlparser
\* rejects one statement of it
SqlParser_parse(text) ==
    IF \A i \in DOMAIN text : text[i] \in ParsedKinds
    THEN ParsedSql(LayoutStmts(TextLines(text), 0, 0), LayoutSql(TextLines(text)), <<>>)
    ELSE ParseError

\* fn detect_safe_pattern(sql) -> Option<&'static str>
detect_safe_pattern_none(text) == <<>>

detect_safe_pattern(text) ==
    IF Contains(text, "UniqueUsingIndex") THEN <<"UNIQUE USING INDEX">>
    ELSE IF Contains(text, "PrimaryKeyUsingIndex") THEN <<"PRIMARY KEY USING INDEX">>
    ELSE IF Contains(text, "DropIndexConcurrently") THEN <<"DROP INDEX CONCURRENTLY">>
    ELSE <<>>

\* fn parse_with_metadata(&self, sql) -> Result<ParsedSql>
parse_with_metadata(text) ==
    LET ranges == parse_ignore_ranges(LayoutSql(TextLines(text)))
        parsed == SqlParser_parse(text)
    IN  IF parsed.ok THEN ParsedSql(parsed.statements, LayoutSql(TextLines(text)), ranges)
        ELSE IF detect_safe_pattern(text) # <<>>
             THEN ParsedSql(<<>>, LayoutSql(TextLines(text)), ranges)
        ELSE ParseError

\* reindex_detector::detect_reindex_violations: one ReindexMatch for each
\* REINDEX the pattern matches, those with CONCURRENTLY filtered out
detect_reindex_violations(text) ==
    LET hits == SelectSeq(text, LAMBDA kind : kind = "Reindex")
    IN  [i \in DOMAIN hits |-> [reindex_type |-> "TABLE", target_name |-> "users"]]

\* ------------------------------------------------------ safety_checker.rs
\* SafetyChecker::with_config(config)
SafetyChecker(cfg) == [config |-> cfg, registry |-> register_enabled_checks(cfg)]

\* fn create_reindex_violation(m: &ReindexMatch) -> Violation
create_reindex_violation(m) ==
    Violation(Str("REINDEX without CONCURRENTLY"),
              <<"REINDEX ", m.reindex_type, " '", m.target_name, "' without CONCURRENTLY">>,
              <<"REINDEX ", m.reindex_type, " CONCURRENTLY ", m.target_name>>)

\* fn detect_reindex_violations(&self, sql) -> Vec<Violation>; the violations
\* found on the raw text are carried with stmt 0 and by "reindex_detector"
SafetyChecker_detect_reindex_violations(self, text) ==
    IF ~is_check_enabled(self.config, "ReindexCheck") THEN <<>>
    ELSE LET found == detect_reindex_violations(text)
         IN  [i \in DOMAIN found |->
                [stmt |-> 0, by |-> "reindex_detector", k |-> 0,
                 v |-> create_reindex_violation(found[i])]]

\* let has_any_reindex = !detect_reindex_violations(sql).is_empty()
has_any_reindex_never(text) == FALSE

has_any_reindex(text) == detect_reindex_violations(text) # <<>>

\* Result<Vec<Violation>>
Ok(found) == [ok |-> TRUE, violations |-> found, path |-> <<>>]
Err(at) == [ok |-> FALSE, violations |-> <<>>, path |-> at]

\* self.registry.check_statements_with_context(&parsed.statements, &parsed.sql,
\* &parsed.ignore_ranges)
AstViolations(self, parsed) ==
    check_stmts_with_context(self.registry, parsed.statements, parsed.sql,
                             parsed.ignore_ranges, self.config).violations

\* fn check_sql(&self, sql) -> Result<Vec<Violation>>
check_sql(self, text) ==
    LET found == SafetyChecker_detect_reindex_violations(self, text)
        parsed == parse_with_metadata(text)
    IN  IF parsed.ok THEN Ok(found \o AstViolations(self, parsed))
        ELSE IF found # <<>> \/ has_any_reindex(text) THEN Ok(found)
        ELSE Err(<<>>)

\* the configurations of a SafetyChecker: nothing disabled, ReindexCheck
\* disabled, DropColumnCheck disabled
CheckerConfigs ==
    {Config({}, <<>>), Config({"ReindexCheck"}, <<>>), Config({"DropColumnCheck"}, <<>>)}

SqlTexts == SeqsUpTo(StatementKinds, MaxStmts)

RegistryAtRest ==
    /\ dir = NoDir
    /\ config = Config_default
    /\ checks = <<>>
    /\ load_errors = <<>>
    /\ sql = <<>> /\ stmts = <<>> /\ ignore_ranges = <<>>
    /\ violations = <<>> /\ tagged = <<>> /\ invoked = {}
    /\ pc = "off"

InitSql ==
    /\ RegistryAtRest
    /\ Idle_checkerVars
    /\ sc_config \in CheckerConfigs
    /\ sc_sql \in SqlTexts
    /\ sc_parsed = <<>> /\ sc_result = <<>>
    /\ sc_files = <<>> /\ sc_pos = 0 /\ sc_results = <<>> /\ sc_outcome = <<>>
    /\ scpc = "sql"

\* self.parser.parse_with_metadata(sql), called on its own
ParseWithMetadata ==
    /\ scpc = "sql"
    /\ sc_parsed = <<>>
    /\ sc_parsed' = <<parse_with_metadata(sc_sql)>>
    /\ UNCHANGED <<sc_config, sc_sql, sc_result, sc_files, sc_pos, sc_results, sc_outcome, scpc>>
    /\ UNCHANGED allBut_checkerVars

\* checker.check_sql(sql)
CheckSql ==
    /\ scpc = "sql"
    /\ sc_result = <<>>
    /\ sc_result' = <<check_sql(SafetyChecker(sc_config), sc_sql)>>
    /\ UNCHANGED <<sc_config, sc_sql, sc_parsed, sc_files, sc_pos, sc_results, sc_outcome, scpc>>
    /\ UNCHANGED allBut_checkerVars

NextSql == ParseWithMetadata \/ CheckSql

SpecSql == InitSql /\ [][NextSql]_vars

\* check_directory: the files collect_migration_files returned, in order,
\* each readable, none with `-- migrate:up` and `-- migrate:down` sections
MaxFiles == 2

DirTexts ==
    {<<>>} \cup {<<kind>> : kind \in StatementKinds}
    \cup {<<"UniqueUsingIndex", "DropColumn">>, <<"Reindex", "Garbage">>}

MigrationFile(at, text) == [path |-> at, sql |-> text]

CollectedFiles ==
    {[i \in DOMAIN texts |-> MigrationFile(i, texts[i])] : texts \in SeqsUpTo(DirTexts, MaxFiles)}

InitDir ==
    /\ RegistryAtRest
    /\ Idle_checkerVars
    /\ sc_config \in CheckerConfigs
    /\ sc_sql = <<>> /\ sc_parsed = <<>> /\ sc_result = <<>>
    /\ sc_files \in CollectedFiles
    /\ sc_pos = 1
    /\ sc_results = <<>>
    /\ sc_outcome = <<>>
    /\ scpc = "dir"

\* one turn of `for mig_file in migration_files`
CheckDirectoryFile ==
    /\ scpc = "dir"
    /\ sc_outcome = <<>>
    /\ sc_pos <= Len(sc_files)
    /\ LET self == SafetyChecker(sc_config)
           mig_file == sc_files[sc_pos]
           found == SafetyChecker_detect_reindex_violations(self, mig_file.sql)
           parse_result == parse_with_metadata(mig_file.sql)
           all == IF parse_result.ok THEN found \o AstViolations(self, parse_result)
                  ELSE found
       IN  IF ~parse_result.ok /\ found = <<>> /\ ~has_any_reindex(mig_file.sql)
           THEN /\ sc_outcome' = <<Err(<<mig_file.path>>)>>
                /\ sc_results' = <<>>
                /\ UNCHANGED sc_pos
           ELSE /\ sc_results' = IF all # <<>>
                                 THEN Append(sc_results, <<mig_file.path, all>>)
                                 ELSE sc_results
                /\ sc_pos' = sc_pos + 1
                /\ UNCHANGED sc_outcome
    /\ UNCHANGED <<sc_config, sc_sql, sc_parsed, sc_result, sc_files, scpc>>
    /\ UNCHANGED allBut_checkerVars

\* Ok(results) after the last file
CheckDirectoryReturn ==
    /\ scpc = "dir"
    /\ sc_outcome = <<>>
    /\ sc_pos > Len(sc_files)
    /\ sc_outcome' = <<Ok(sc_results)>>
    /\ UNCHANGED <<sc_config, sc_sql, sc_parsed, sc_result, sc_files, sc_pos, sc_results, scpc>>
    /\ UNCHANGED allBut_checkerVars

NextDir == CheckDirectoryFile \/ CheckDirectoryReturn

SpecDir == InitDir /\ [][NextDir]_vars

\* ------------------------------------ adapters/mod.rs 121-140, config.rs
\* A str is the sequence of its characters; Option<&str> is <<>> or <<s>>.
Digits == <<"0", "1", "2", "3", "4", "5", "6", "7", "8", "9">>

IsDigit(c) == \E d \in DOMAIN Digits : Digits[d] = c

\* the byte of a character: '+' 43, '-' 45, '0'..'9' 48..57, '_' 95, 'a' 97
Byte(c) ==
    IF c = "+" THEN 43
    ELSE IF c = "-" THEN 45
    ELSE IF IsDigit(c) THEN 47 + (CHOOSE d \in DOMAIN Digits : Digits[d] = c)
    ELSE IF c = "_" THEN 95
    ELSE 97

\* str's Ord: byte by byte, a proper prefix is less
str_gt(a, b) ==
    \E i \in 1..Len(a) :
        /\ \A j \in 1..(i - 1) : j <= Len(b) /\ a[j] = b[j]
        /\ (i > Len(b) \/ Byte(a[i]) > Byte(b[i]))

\* str::replace(['_', '-'], "")
replace_keeping_dashes(s) == SelectSeq(s, LAMBDA c : c # "_")

replace_separators(s) == SelectSeq(s, LAMBDA c : c \notin {"_", "-"})

\* i64::MAX = 9223372036854775807, digit by digit
I64_MAX ==
    <<"9", "2", "2", "3", "3", "7", "2", "0", "3", "6", "8", "5", "4", "7", "7", "5", "8", "0", "7">>

RECURSIVE StripZeros(_)
StripZeros(ds) ==
    IF Len(ds) > 1 /\ Head(ds) = "0" THEN StripZeros(Tail(ds)) ELSE ds

\* the order of two magnitudes written without leading zeros
magnitude_gt(a, b) ==
    Len(a) > Len(b) \/ (Len(a) = Len(b) /\ str_gt(a, b))

\* str::parse::<i64>(): an optional sign, then one digit or more, the value
\* within i64; Ok(value) is <<[neg, digits]>> with the digits without
\* leading zeros, Err is <<>>. (i64::MIN, whose magnitude is one more than
\* i64::MAX, needs a '-', which no normalised value holds.)
parse_i64(s) ==
    LET signed == s # <<>> /\ Head(s) \in {"+", "-"}
        ds == IF signed THEN Tail(s) ELSE s
    IN  IF ds = <<>> \/ \E i \in DOMAIN ds : ~IsDigit(ds[i]) THEN <<>>
        ELSE IF magnitude_gt(StripZeros(ds), I64_MAX) THEN <<>>
        ELSE <<[neg |-> signed /\ Head(s) = "-" /\ StripZeros(ds) # <<"0">>,
                digits |-> StripZeros(ds)]>>

\* mig > start on two i64
i64_gt(a, b) ==
    IF a.neg # b.neg THEN b.neg
    ELSE IF a.neg THEN magnitude_gt(b.digits, a.digits)
    ELSE magnitude_gt(a.digits, b.digits)

\* pub(crate) fn should_check_migration(start_after: Option<&str>,
\*                                      migration_timestamp: &str) -> bool
should_check_migration(sa, ts) ==
    IF sa = <<>> THEN TRUE
    ELSE LET start_normalized == replace_separators(sa[1])
             migration_normalized == replace_separators(ts)
             mig == parse_i64(migration_normalized)
             start == parse_i64(start_normalized)
         IN  IF mig # <<>> /\ start # <<>> THEN i64_gt(mig[1], start[1])
             ELSE str_gt(migration_normalized, start_normalized)

\* MIGRATION_TIMESTAMP_REGEX.captures(name): the first alternative that
\* matches at the start of the name, <<>> when none does
DigitsAt(s, from, n) ==
    /\ Len(s) >= from + n - 1
    /\ \A i \in from..(from + n - 1) : IsDigit(s[i])

SeparatedStamp(s, sep) ==
    /\ DigitsAt(s, 1, 4) /\ Len(s) >= 17
    /\ s[5] = sep /\ DigitsAt(s, 6, 2)
    /\ s[8] = sep /\ DigitsAt(s, 9, 2)
    /\ s[11] = sep /\ DigitsAt(s, 12, 6)

MIGRATION_TIMESTAMP_REGEX(s) ==
    IF SeparatedStamp(s, "_") \/ SeparatedStamp(s, "-") THEN <<SubSeq(s, 1, 17)>>
    ELSE IF DigitsAt(s, 1, 14) THEN <<SubSeq(s, 1, 14)>>
    ELSE <<>>

\* pub fn should_check_migration(&self, migration_dir_name: &str) -> bool
Config_should_check_migration(sa, name) ==
    IF sa = <<>> THEN TRUE
    ELSE LET captures == MIGRATION_TIMESTAMP_REGEX(name)
         IN  IF captures = <<>> THEN TRUE
             ELSE str_gt(replace_separators(captures[1]), replace_separators(sa[1]))

\* The strings tried: up to MaxPieces pieces (a character, or 10^19 written
\* out, which is past i64::MAX), and the timestamps of two days in the three
\* formats, alone and followed by a migration's name.
MaxPieces == 2

Pieces == {"0", "1", "2", "9", "_", "-", "e19"}

Chars(piece) ==
    IF piece = "e19" THEN <<"1">> \o [i \in 1..19 |-> "0"] ELSE <<piece>>

Expand(ps) == Flatten([i \in DOMAIN ps |-> Chars(ps[i])])

Stamp(sep, day) ==
    <<"2", "0", "2", "4">> \o sep \o <<"0", "1">> \o sep \o day \o sep
    \o <<"0", "0", "0", "0", "0", "0">>

Stamps ==
    {Stamp(sep, day) : sep \in {<<>>, <<"_">>, <<"-">>}, day \in {<<"0", "1">>, <<"0", "2">>}}

Strings ==
    {Expand(ps) : ps \in SeqsUpTo(Pieces, MaxPieces)}
    \cup Stamps \cup {s \o <<"_", "a">> : s \in Stamps}

InitFilter ==
    /\ RegistryAtRest
    /\ Idle_filterVars
    /\ start_after \in {<<>>} \cup {<<s>> : s \in Strings}
    /\ migration_timestamp \in Strings
    /\ should_check = [adapters |-> <<>>, config |-> <<>>]
    /\ fpc = "filter"

\* adapters::should_check_migration(start_after, &timestamp)
ShouldCheckMigration ==
    /\ fpc = "filter"
    /\ should_check.adapters = <<>>
    /\ should_check' = [should_check EXCEPT
                          !.adapters = <<should_check_migration(start_after, migration_timestamp)>>]
    /\ UNCHANGED <<start_after, migration_timestamp, fpc>>
    /\ UNCHANGED allBut_filterVars

\* config.should_check_migration(migration_dir_name)
ConfigShouldCheckMigration ==
    /\ fpc = "filter"
    /\ should_check.config = <<>>
    /\ should_check' = [should_check EXCEPT
                          !.config = <<Config_should_check_migration(start_after, migration_timestamp)>>]
    /\ UNCHANGED <<start_after, migration_timestamp, fpc>>
    /\ UNCHANGED allBut_filterVars

NextFilter == ShouldCheckMigration \/ ConfigShouldCheckMigration

SpecFilter == InitFilter /\ [][NextFilter]_vars

\* -------------------------------------------- line resolution (C4)

\* offsets of the non-comment tokens at or after the recorded offset
TokensAtOrAfter(src, off) == {i \in 0..(Len(src) - 1) : src[i + 1] = "T" /\ i >= off}

NewlinesBefore(src, off) == Cardinality({i \in 0..(off - 1) : i < Len(src) /\ IsNewline(src[i + 1])})

\* C4: when the scanner accepts the source and a non-comment token starts at
\* or after the recorded offset, the statement's line is 1 + the number of
\* newline bytes before the first such token; whitespace and comments in
\* between do not decide it.
C4_LineOfFirstToken ==
    (rpc = "resolved" /\ ScanOk(rsql) /\ TokensAtOrAfter(rsql, roffset) # {}) =>
        LET first == CHOOSE p \in TokensAtOrAfter(rsql, roffset) :
                        \A q \in TokensAtOrAfter(rsql, roffset) : p <= q
        IN  rline = 1 + NewlinesBefore(rsql, first)

\* a statement whose recorded offset points at a comment that spans a line
\* break, with the real token on a later line
C4_Witness ==
    /\ rpc = "resolved"
    /\ ScanOk(rsql)
    /\ roffset < Len(rsql)
    /\ rsql[roffset + 1] \in CommentStart
    /\ \E p \in TokensAtOrAfter(rsql, roffset) :
          \E i \in (roffset + 1)..p : IsNewline(rsql[i])
    /\ rline > byte_offset_to_line(rsql, roffset)
\* --------------------------------------------- safety-assured blocks (C1-C3)
HasNode(i) == stmts[i].node.kind # "None"

ResolvedLine(i) == StmtLine(sql, stmts[i].stmt_location)

InsideRange(line) ==
    \E r \in Range(ignore_ranges) : r.start_line < line /\ line < r.end_line

InvokedOn(i) == {k \in DOMAIN checks : <<i, k>> \in invoked}

ViolationsOf(i) == {j \in DOMAIN tagged : tagged[j].stmt = i}

\* C1: a statement whose resolved line lies inside an IgnoreRange has no check
\* invoked on it, built-in or custom, and contributes no violation.
C1_ExemptStatementReachesNoCheck ==
    pc = "checked" =>
        \A i \in DOMAIN stmts :
            (HasNode(i) /\ InsideRange(ResolvedLine(i))) =>
                InvokedOn(i) = {} /\ ViolationsOf(i) = {}

\* a wrapped DROP COLUMN that an active built-in and an active custom check
\* would both have reported
C1_Witness ==
    /\ pc = "checked"
    /\ \E i \in DOMAIN stmts :
          /\ HasNode(i) /\ InsideRange(ResolvedLine(i))
          /\ \E k \in DOMAIN checks :
                checks[k].builtin /\ Check_check(checks[k], stmts[i].node, config) # <<>>
          /\ \E k \in DOMAIN checks :
                ~checks[k].builtin /\ Check_check(checks[k], stmts[i].node, config) # <<>>
          /\ ViolationsOf(i) = {}

\* C2: a statement is exempt exactly when start_line < L < end_line for some
\* range; on a marker line or outside every range it is passed to every
\* active check.
C2_ExemptIffStrictlyInside ==
    pc = "checked" =>
        \A i \in DOMAIN stmts :
            HasNode(i) =>
                IF InsideRange(ResolvedLine(i))
                THEN InvokedOn(i) = {}
                ELSE InvokedOn(i) = DOMAIN checks

\* statements on the start marker's line and on the end marker's line, both
\* checked and reported
C2_Witness ==
    /\ pc = "checked"
    /\ \E r \in Range(ignore_ranges) :
          /\ \E i \in DOMAIN stmts :
                HasNode(i) /\ ResolvedLine(i) = r.start_line
                /\ InvokedOn(i) = DOMAIN checks /\ ViolationsOf(i) # {}
          /\ \E i \in DOMAIN stmts :
                HasNode(i) /\ ResolvedLine(i) = r.end_line
                /\ InvokedOn(i) = DOMAIN checks /\ ViolationsOf(i) # {}

ScenarioFile == LayoutFile(ScenarioItems)

InScenario ==
    /\ pc = "checked"
    /\ sql = ScenarioFile.sql /\ stmts = ScenarioFile.stmts
    /\ ignore_ranges = ScenarioFile.ignore_ranges
    /\ "DropColumnCheck" \notin config.disable_checks
    /\ \A k \in DOMAIN checks : checks[k].builtin

\* C3: start marker / DROP COLUMN c / end marker / DROP COLUMN d, checked by
\* the built-in checks, yields exactly one violation, the one for column d.
C3_ScenarioReportsOnlyD ==
    InScenario => violations = <<DropColumnViolation("t", "d", FALSE)>>

C3_Witness ==
    /\ InScenario
    /\ Len(violations) = 1
    /\ ResolvedLine(1) = 2 /\ ResolvedLine(2) = 4
    /\ ignore_ranges = <<IgnoreRange(1, 3)>>
\* ------------------------------------------------ disabling a check (C5)
ActiveNames == {checks[k].name : k \in DOMAIN checks}

\* the whole run repeated on the same directory and file, under a config and
\* an order in which the directory is enumerated
RunWithListing(cfg, listing) ==
    LET loaded == load_custom_checks(dir.exists, listing, cfg)
        registry == add_checks(register_enabled_checks(cfg), loaded.checks)
    IN  check_stmts_with_context(registry, stmts, sql, ignore_ranges, cfg).violations

RunWith(cfg) == RunWithListing(cfg, CHOOSE l \in Listings(dir.files) : TRUE)

Disabling(X) == Config(config.disable_checks \cup {X}, config.postgres_version)

Without(X) == SelectSeq(tagged, LAMBDA t : t.by # X)

\* C5: for every active check X, the run with X disabled returns the
\* violations of the run with X enabled minus those X produced, the others
\* unchanged in content and order.
C5_DisablingRemovesExactlyItsViolations ==
    pc = "checked" =>
        \A X \in ActiveNames : Untag(RunWith(Disabling(X))) = Untag(Without(X))

\* disabling a check whose violations sit between those of two other checks
C5_Witness ==
    /\ pc = "checked"
    /\ \E X \in ActiveNames :
          \E j1, j2, j3 \in DOMAIN tagged :
              /\ j1 < j2 /\ j2 < j3
              /\ tagged[j1].by # X /\ tagged[j2].by = X /\ tagged[j3].by # X
              /\ Len(RunWith(Disabling(X))) < Len(tagged)
\* ------------------------------------------------- order of violations (C6)
Reaches(i) == HasNode(i) /\ ~InsideRange(ResolvedLine(i))

ResultsOn(i) ==
    Flatten([k \in DOMAIN checks |-> Check_check(checks[k], stmts[i].node, config)])

\* C6: the violations of a file are, statement by statement in source order,
\* the results of the active checks in registry order on each statement that
\* reaches them; any other run on the same file, directory and config, however
\* the directory is enumerated, returns the same sequence.
C6_SourceThenRegistryOrder ==
    pc = "checked" =>
        /\ violations = Flatten([i \in DOMAIN stmts |-> IF Reaches(i) THEN ResultsOn(i) ELSE <<>>])
        /\ \A l \in Listings(dir.files) : Untag(RunWithListing(config, l)) = violations

\* two statements, each reported by a built-in and by two custom checks
C6_Witness ==
    /\ pc = "checked"
    /\ Cardinality(dir.files) >= 2
    /\ \E i1, i2 \in DOMAIN stmts :
          /\ i1 < i2
          /\ \A i \in {i1, i2} :
                /\ \E j \in ViolationsOf(i) : checks[tagged[j].k].builtin
                /\ Cardinality({tagged[j].k : j \in ViolationsOf(i)}) >= 3

\* ---------------------------------------------------- the check list (C7)
EnabledBuiltins == SelectSeq(BuiltinChecks, LAMBDA n : n \notin config.disable_checks)

LoadableScripts ==
    {f \in dir.files :
        f.ext = "rhai" /\ f.readable /\ f.compiles /\ f.stem \notin config.disable_checks}

CustomPart == SubSeq(checks, Len(EnabledBuiltins) + 1, Len(checks))

ScriptFileName(check) == file_name([stem |-> check.name, ext |-> "rhai"])

\* C7: once constructed, the check list is the enabled built-ins in the
\* canonical order, then one check per loadable script whose stem is not
\* disabled, in the order of their file names, whatever order the directory
\* was enumerated in.
C7_RegistryOrder ==
    pc \in {"loaded", "checked"} =>
        /\ Len(checks) = Len(EnabledBuiltins) + Cardinality(LoadableScripts)
        /\ \A k \in DOMAIN EnabledBuiltins :
              checks[k].builtin /\ checks[k].name = EnabledBuiltins[k]
        /\ \A k \in DOMAIN CustomPart : ~CustomPart[k].builtin
        /\ {[stem |-> CustomPart[k].name, ast |-> CustomPart[k].ast] : k \in DOMAIN CustomPart}
              = {[stem |-> f.stem, ast |-> f.ast] : f \in LoadableScripts}
        /\ \A k1, k2 \in DOMAIN CustomPart :
              k1 < k2 => LexLess(ScriptFileName(CustomPart[k1]), ScriptFileName(CustomPart[k2]))

\* a.rhai and a-b.rhai both loaded, a-b.rhai first although "a" sorts before
\* "a-b" as a stem, with a built-in disabled
C7_Witness ==
    /\ pc = "loaded"
    /\ "DropColumnCheck" \in config.disable_checks
    /\ Len(EnabledBuiltins) = Len(BuiltinChecks) - 1
    /\ Len(CustomPart) = 2
    /\ CustomPart[1].name = "a-b" /\ CustomPart[2].name = "a"

\* --------------------------------------------------- failing scripts (C9)
ContributionOf(i, k) ==
    Untag(SelectSeq(tagged, LAMBDA t : t.stmt = i /\ t.k = k))

\* C9: when a custom script fails on a statement (a runtime error or the
\* operation budget), that check contributes nothing for the statement, and
\* every other check on it and every check on the later statements is still
\* invoked and contributes its result.
C9_FailOpen ==
    pc = "checked" =>
        \A i \in DOMAIN stmts : \A k \in DOMAIN checks :
            (Reaches(i) /\ Failed(checks[k], stmts[i].node)) =>
                /\ ContributionOf(i, k) = <<>>
                /\ \A i2 \in i..Len(stmts) : \A k2 \in DOMAIN checks :
                      (Reaches(i2) /\ <<i2, k2>> # <<i, k>>) =>
                          /\ <<i2, k2>> \in invoked
                          /\ Failed(checks[k2], stmts[i2].node) \/
                                ContributionOf(i2, k2) = Check_check(checks[k2], stmts[i2].node, config)

\* a script fails on the first statement; a check after it in the registry
\* reports that statement, and the next statement is reported too
C9_Witness ==
    /\ pc = "checked"
    /\ \E i \in DOMAIN stmts : \E k \in DOMAIN checks :
          /\ Reaches(i) /\ Failed(checks[k], stmts[i].node)
          /\ EvalAst(checks[k].ast, stmts[i].node).status = "ErrorRuntime"
          /\ \E k2 \in DOMAIN checks : k2 > k /\ ContributionOf(i, k2) # <<>>
          /\ \E k0 \in DOMAIN checks : k0 < k /\ ContributionOf(i, k0) # <<>>
          /\ \E i2 \in DOMAIN stmts : i2 > i /\ ViolationsOf(i2) # {}
\* ------------------------------------------- malformed script results (C8)
WellFormedRecord(v) ==
    /\ v.type = "map"
    /\ \A key \in RequiredKeys : key \in DOMAIN v.val /\ v.val[key].type = "string"

Conforming(v) ==
    \/ v.type = "()"
    \/ WellFormedRecord(v)
    \/ v.type = "array" /\ \A i \in DOMAIN v.val : WellFormedRecord(v.val[i])

IsScriptError(violation, name) == violation.operation = ScriptErrorOperation(name)

\* C8: a result that is not unit, a well-formed record or a sequence of
\* well-formed records yields exactly one violation, tagged as a script error
\* naming the script.
C8_MalformedResultOneScriptError ==
    (spc = "parsed" /\ ~Conforming(script_result)) =>
        /\ Len(script_violations) = 1
        /\ IsScriptError(script_violations[1], script_name)
\* ------------------------------------------------------- termination (C10)
Loops == OperationsNeeded(eval_check.ast, eval_node) = -1

\* C10: every evaluation of a script on a statement ends; one that loops for
\* ever is ended by the operation budget, on the first operation past
\* max_operations, and the check returns no violation for it.
C10_EveryEvaluationTerminates ==
    /\ <>(epc = "done")
    /\ [](epc = "done" => eval_violations = CustomCheck_check(eval_check, eval_node))
    /\ []((epc = "done" /\ Loops) =>
            /\ eval_status = "ErrorTooManyOperations"
            /\ eval_violations = <<>>
            /\ eval_ops = max_operations + 1)

\* the looping script, stopped on the first operation past the budget
C10_Witness ==
    /\ epc = "done"
    /\ Loops
    /\ eval_ops = max_operations + 1
    /\ eval_status = "ErrorTooManyOperations"
    /\ eval_violations = <<>>
\* ------------------------------------------- scripts that fail to load (C11)
FailingScripts ==
    {f \in dir.files :
        f.ext = "rhai" /\ f.stem \notin config.disable_checks /\ (~f.readable \/ ~f.compiles)}

ErrorsFor(f) == {j \in DOMAIN load_errors : load_errors[j].file = file_name(f)}

\* C11: a script that does not compile or cannot be read gives no check and
\* one load error; every other loadable script and every enabled built-in is
\* in the registry, and all of them are invoked on the statements that reach
\* the checks and contribute their results.
C11_BrokenScriptIsNonFatal ==
    (pc \in {"loaded", "checked"} /\ dir.exists) =>
        /\ \A f \in FailingScripts :
              /\ \A k \in DOMAIN checks : checks[k].builtin \/ checks[k].name # f.stem
              /\ Cardinality(ErrorsFor(f)) = 1
        /\ Len(load_errors) = Cardinality(FailingScripts)
        /\ \A f \in LoadableScripts :
              \E k \in DOMAIN checks :
                  ~checks[k].builtin /\ checks[k].name = f.stem /\ checks[k].ast = f.ast
        /\ \A b \in DOMAIN EnabledBuiltins :
              \E k \in DOMAIN checks : checks[k].builtin /\ checks[k].name = EnabledBuiltins[b]
        /\ pc = "checked" =>
              \A i \in DOMAIN stmts : \A k \in DOMAIN checks :
                  Reaches(i) =>
                      /\ <<i, k>> \in invoked
                      /\ ContributionOf(i, k) = Check_check(checks[k], stmts[i].node, config)

\* broken.rhai on disk beside zzz_check.rhai, which sorts after it: one load
\* error, and zzz_check and a built-in report a statement
C11_Witness ==
    /\ pc = "checked"
    /\ \E f \in FailingScripts : f.readable /\ ~f.compiles
    /\ Len(load_errors) = 1
    /\ \E j1, j2 \in DOMAIN tagged :
          /\ tagged[j1].by = "zzz_check"
          /\ checks[tagged[j2].k].builtin

\* ------------------------------------------------------------ purity (C12)
SameArguments(r1, r2) ==
    r1.check = r2.check /\ r1.node = r2.node /\ r1.config = r2.config

\* C12: every check, built-in or script, is a pure function of the
\* statement tree and the config: two evaluations on the same arguments give
\* equal results, whatever was evaluated between and before them.
C12_ChecksArePure ==
    ppc = "on" =>
        \A i, j \in DOMAIN runs :
            SameArguments(runs[i], runs[j]) => runs[i].result = runs[j].result

\* the script that defines a variable ran twice on the same statement, after
\* its first evaluation had left the variable in the scope it dropped
C12_Witness ==
    /\ ppc = "on" /\ Len(runs) = MaxRuns /\ "seen" \in run_scope
    /\ runs[1].check = "remember" /\ runs[MaxRuns].check = "remember"
    /\ SameArguments(runs[1], runs[MaxRuns])
    /\ \E i \in DOMAIN runs : runs[i].check = "AddColumnCheck" /\ runs[i].result # <<>>

\* ------------------------------------------------ well-formed results (C13, C14)
RecordViolation(v) ==
    Violation(v.val["operation"].val, v.val["problem"].val, v.val["safe_alternative"].val)

\* C13: a script that returns one record whose operation, problem and
\* safe_alternative are strings yields exactly one violation, carrying the
\* three values as they are.
C13_RecordGivesOneViolationVerbatim ==
    (spc = "parsed" /\ WellFormedRecord(script_result)) =>
        script_violations = <<RecordViolation(script_result)>>

C13_Witness ==
    /\ spc = "parsed" /\ script_result = GoodMap("x")
    /\ Len(script_violations) = 1
    /\ script_violations[1].problem # script_violations[1].safe_alternative

\* C14: a script that returns a sequence of N well-formed records yields
\* exactly N violations, the i-th built from the i-th record.
C14_ArrayGivesOneViolationPerRecordInOrder ==
    (/\ spc = "parsed" /\ script_result.type = "array"
     /\ \A i \in DOMAIN script_result.val : WellFormedRecord(script_result.val[i])) =>
        /\ Len(script_violations) = Len(script_result.val)
        /\ \A i \in DOMAIN script_result.val :
              script_violations[i] = RecordViolation(script_result.val[i])

C14_Witness ==
    /\ spc = "parsed" /\ script_result.type = "array"
    /\ Len(script_result.val) = MaxArrayLen
    /\ \A i \in DOMAIN script_result.val : WellFormedRecord(script_result.val[i])
    /\ script_result.val[1] # script_result.val[MaxArrayLen]
    /\ Len(script_violations) = MaxArrayLen

\* ------------------------------------------------- disabled scripts (C15)
DisabledScripts == {f \in dir.files : f.ext = "rhai" /\ f.stem \in config.disable_checks}

\* C15: a script whose file stem is in the disabled set is skipped at load
\* and is never active: no check of that name, built-in or script, is in the
\* list, and none produces a violation, also when the stem is the name of a
\* built-in check.
C15_DisabledScriptNeverActive ==
    pc \in {"loaded", "checked"} =>
        \A f \in DisabledScripts :
            /\ f.stem \notin ActiveNames
            /\ \A j \in DOMAIN tagged : tagged[j].by # f.stem

\* DropColumnCheck.rhai and the built-in DropColumnCheck are both disabled
\* by the one name, and a statement both would report on was checked
C15_Witness ==
    /\ pc = "checked"
    /\ \E f \in DisabledScripts :
          /\ f.stem = "DropColumnCheck" /\ f.compiles
          /\ \E k \in DOMAIN BuiltinChecks : BuiltinChecks[k] = f.stem
    /\ \E i \in DOMAIN stmts :
          /\ stmts[i].node.kind = "AlterTable"
          /\ DropColumnCheck(stmts[i].node) # <<>>
          /\ \E c \in DOMAIN checks : <<i, c>> \in invoked

\* --------------------------------------- disabling an unknown name (C16)
\* names that are neither a built-in check nor the stem of a script in the
\* directory
UnknownNames ==
    {X \in DisableNames \cup {"TotallyBogusCheckName"} :
        /\ \A k \in DOMAIN BuiltinChecks : BuiltinChecks[k] # X
        /\ \A f \in dir.files : f.ext = "rhai" => f.stem # X}

\* the check list built again on the same directory under another config
ChecksWith(cfg) ==
    LET listing == CHOOSE l \in Listings(dir.files) : TRUE
    IN  add_checks(register_enabled_checks(cfg),
                   load_custom_checks(dir.exists, listing, cfg).checks)

ErrorsWith(cfg) ==
    LET listing == CHOOSE l \in Listings(dir.files) : TRUE
    IN  load_custom_checks(dir.exists, listing, cfg).errors

\* C16: adding to the disabled set a name that is neither a built-in check
\* nor a script changes nothing: the construction gives the same list of
\* checks and the same load errors, and the file checked gives the same
\* violations.
C16_UnknownNameChangesNothing ==
    pc = "checked" =>
        \A X \in UnknownNames :
            /\ ChecksWith(Disabling(X)) = checks
            /\ ErrorsWith(Disabling(X)) = load_errors
            /\ RunWith(Disabling(X)) = tagged

\* an unknown name added to a config that disables nothing, on a run that
\* reported violations from a built-in check and from a script
C16_Witness ==
    /\ pc = "checked"
    /\ config.disable_checks = {}
    /\ "Bogus" \in UnknownNames
    /\ \E j1, j2 \in DOMAIN tagged : tagged[j1].by = "DropColumnCheck" /\ tagged[j2].by = "a"
    /\ Len(RunWith(Disabling("Bogus"))) = Len(tagged)

\* ------------------------------------------- ADD COLUMN with DEFAULT (C17)
Ran(name, kind) == cpc = "checked" /\ chk_name = name /\ chk_node.kind = kind

DefaultsOf(cmd) ==
    IF cmd.subtype # "AtAddColumn" \/ cmd.def = <<>> THEN <<>>
    ELSE SelectSeq(cmd.def[1].constraints, LAMBDA k : k.contype = "ConstrDefault")

AddsColumnWithDefault(cmd) == DefaultsOf(cmd) # <<>>

LiteralDefault(cmd) == DefaultsOf(cmd)[1].raw_expr = <<"AConst">>

VersionFrom11(cfg) == cfg.postgres_version \in {<<v>> : v \in 11..20}

Reported(cmd, cfg) ==
    AddsColumnWithDefault(cmd) /\ ~(VersionFrom11(cfg) /\ LiteralDefault(cmd))

ReportedCmds == SelectSeq(chk_node.cmds, LAMBDA cmd : Reported(cmd, chk_config))

\* C17: AddColumnCheck gives exactly one 'ADD COLUMN with DEFAULT' violation
\* for each added column with a DEFAULT, in order, except a column whose
\* default is a literal constant when the target version is set and at least
\* 11; without a version, below 11, or with a function call, operator or cast
\* as default, the violation is given.
C17_AddColumnWithDefault ==
    Ran("AddColumnCheck", "AlterTableStmt") =>
        /\ Len(chk_result) = Len(ReportedCmds)
        /\ \A i \in DOMAIN chk_result :
              /\ chk_result[i].operation = Str("ADD COLUMN with DEFAULT")
              /\ chk_result[i].problem[2] = ReportedCmds[i].def[1].colname
        /\ \A i \in DOMAIN chk_node.cmds :
              (/\ AddsColumnWithDefault(chk_node.cmds[i])
               /\ \/ chk_config.postgres_version \in {<<>>, <<10>>}
                  \/ ~LiteralDefault(chk_node.cmds[i]))
              => \E j \in DOMAIN chk_result :
                    chk_result[j].problem[2] = chk_node.cmds[i].def[1].colname

\* on version 11, a column with a literal default and a column with a
\* function call as default: only the second is reported
C17_Witness ==
    /\ Ran("AddColumnCheck", "AlterTableStmt")
    /\ chk_config.postgres_version = <<11>>
    /\ Len(chk_node.cmds) = MaxCmds
    /\ AddsColumnWithDefault(chk_node.cmds[1]) /\ LiteralDefault(chk_node.cmds[1])
    /\ chk_node.cmds[1].def[1].colname = "d"
    /\ AddsColumnWithDefault(chk_node.cmds[MaxCmds]) /\ ~LiteralDefault(chk_node.cmds[MaxCmds])
    /\ chk_node.cmds[MaxCmds].def[1].colname = "c"
    /\ Len(chk_result) = 1

\* ------------------------------------------ one violation per target (C18)
DroppedColumns ==
    Flatten([i \in DOMAIN chk_node.operations |->
                IF chk_node.operations[i].op = "DropColumn"
                THEN chk_node.operations[i].column_names ELSE <<>>])

\* C18: DROP TABLE naming n tables gives n 'DROP TABLE' violations and ALTER
\* TABLE dropping n columns gives n 'DROP COLUMN' violations, the i-th for
\* the i-th target.
C18_OneViolationPerTarget ==
    /\ (Ran("DropTableCheck", "Drop") /\ chk_node.object_type = "Table") =>
          /\ Len(chk_result) = Len(chk_node.names)
          /\ \A i \in DOMAIN chk_result :
                /\ chk_result[i].operation = Str("DROP TABLE")
                /\ chk_result[i].problem[2] = chk_node.names[i]
    /\ Ran("DropColumnCheck", "AlterTable") =>
          /\ Len(chk_result) = Len(DroppedColumns)
          /\ \A i \in DOMAIN chk_result :
                /\ chk_result[i].operation = Str("DROP COLUMN")
                /\ chk_result[i].problem[2] = DroppedColumns[i]

\* DROP TABLE a, b, c
C18_Witness ==
    /\ Ran("DropTableCheck", "Drop")
    /\ chk_node.object_type = "Table" /\ chk_node.names = <<"a", "b", "c">>
    /\ Len(chk_result) = 3

\* ------------------------------------------------ untargeted variants (C19)
Targets(name) ==
    CASE name = "AddColumnCheck" -> {"AlterTableStmt"}
      [] name = "WideIndexCheck" -> {"IndexStmt"}
      [] name = "ReindexCheck" -> {"ReindexStmt"}
      [] name = "DropColumnCheck" -> {"AlterTable"}
      [] name = "DropTableCheck" -> {"Drop"}

IsViolation(v) == DOMAIN v = {"operation", "problem", "safe_alternative"}

HasRelation(nd) == nd.kind \in {"AlterTableStmt", "CreateStmt", "IndexStmt", "ReindexStmt"}

\* the same tree with an absent relation replaced by an empty one
WithEmptyRelation(nd) ==
    IF HasRelation(nd) /\ nd.relation = <<>>
    THEN [nd EXCEPT !.relation = <<RangeVar("", "")>>]
    ELSE nd

IsEmptyString(str) == \A i \in DOMAIN str : str[i] = ""

\* C21: every violation a script's result is decoded into, from a record or
\* as a script error, has a non-empty operation, a non-empty problem and a
\* non-empty safe_alternative.
C21_ViolationFieldsNonEmpty ==
    spc = "parsed" =>
        \A i \in DOMAIN script_violations :
            /\ ~IsEmptyString(script_violations[i].operation)
            /\ ~IsEmptyString(script_violations[i].problem)
            /\ ~IsEmptyString(script_violations[i].safe_alternative)

\* ------------------------------------------ the built-in name list (C22)
\* C22: builtin_check_names() returns the full list of built-in names in
\* the canonical order, whatever the registry built before or after the call
\* disables.
C22_BuiltinNamesAreComplete ==
    /\ names_result # <<>> => names_result[1] = BuiltinChecks
    /\ names_cell # <<>> => names_cell[1] = BuiltinChecks

\* the list was read before and after a registry that disables two of the
\* built-in checks' names was built
C22_Witness ==
    /\ names_calls = MaxCalls /\ names_result # <<>>
    /\ pc = "loaded"
    /\ "DropColumnCheck" \in config.disable_checks
    /\ Len(SelectSeq(checks, LAMBDA c : c.builtin)) < Len(names_result[1])

\* ------------------------------------------------ concurrent workers (C23)
AloneOn(f) ==
    Untag(check_stmts_with_context(checks, f.stmts, f.sql, f.ignore_ranges, config).violations)

IsPrefix(a, b) == Len(a) <= Len(b) /\ a = SubSeq(b, 1, Len(a))

WorkerDone(w) == w_pos[w] > Len(w_file[w].stmts)

\* C23: checking does not change the registry, and whatever the
\* interleaving of the workers, each worker's call collects, and in the end
\* returns, exactly what check_stmts_with_context returns on its file alone.
C23_WorkersDoNotInterfere ==
    wpc = "on" =>
        /\ checks = WorkerRegistry
        /\ \A w \in Workers :
              /\ IsPrefix(w_acc[w], AloneOn(w_file[w]))
              /\ WorkerDone(w) => w_acc[w] = AloneOn(w_file[w])

\* two workers are done with different files, each with violations, and the
\* script that defines a variable has run
C23_Witness ==
    /\ wpc = "on"
    /\ \A w \in Workers : WorkerDone(w) /\ w_acc[w] # <<>>
    /\ w_file[1] # w_file[NumWorkers]
    /\ Len(w_file[1].stmts) = MaxItems
    /\ "seen" \in w_scope

\* ------------------------------------------ ignore ranges do not overlap (C24)
LinesOf(src) == 1..byte_offset_to_line(src, Len(src))

RangesAround(line) ==
    {i \in DOMAIN ignore_ranges :
        ignore_ranges[i].start_line < line /\ line < ignore_ranges[i].end_line}

\* C24: the ignore ranges of a file follow one another without overlap:
\* each range ends after it starts and before the next one starts, so every
\* line lies strictly inside no range or exactly one.
C24_IgnoreRangesDoNotOverlap ==
    pc = "ranges" =>
        /\ \A i \in DOMAIN ignore_ranges :
              ignore_ranges[i].start_line < ignore_ranges[i].end_line
        /\ \A i, j \in DOMAIN ignore_ranges :
              i < j => ignore_ranges[i].end_line < ignore_ranges[j].start_line
        /\ \A line \in LinesOf(sql) : Cardinality(RangesAround(line)) <= 1

\* a file with a start marker, a second start marker before the end marker,
\* and a line between them
C24_Witness ==
    /\ pc = "ranges"
    /\ Len(ignore_ranges) = 1
    /\ Len(SelectSeq(sql, LAMBDA b : b = "S")) = 2
    /\ \E line \in LinesOf(sql) : Cardinality(RangesAround(line)) = 1

\* ------------------------------------------- parse errors (C25, C26, C27)
\* sqlparser rejects a statement of the text
Unparseable(text) == \E i \in DOMAIN text : text[i] \notin ParsedKinds

\* the text holds a known safe pattern, or a REINDEX without CONCURRENTLY
HoldsSafePattern(text) == \E i \in DOMAIN text : text[i] \in SafePatternKinds
HoldsPlainReindex(text) == \E i \in DOMAIN text : text[i] = "Reindex"

AbortingFiles ==
    {i \in DOMAIN sc_files :
        /\ Unparseable(sc_files[i].sql)
        /\ ~HoldsSafePattern(sc_files[i].sql)
        /\ ~HoldsPlainReindex(sc_files[i].sql)}

PurelyNumeric(s) == s # <<>> /\ \A i \in DOMAIN s : IsDigit(s[i])

\* the integer written s is greater than the integer written t
IntegerGreater(s, t) == magnitude_gt(StripZeros(s), StripZeros(t))

WithinI64(s) == ~IntegerGreater(s, I64_MAX)

\* the order in which two normalised values are compared: as integers when
\* both are written with digits only and are within i64, as strings otherwise
StrictlyGreater(m, s) ==
    IF PurelyNumeric(m) /\ WithinI64(m) /\ PurelyNumeric(s) /\ WithinI64(s)
    THEN IntegerGreater(m, s)
    ELSE str_gt(m, s)

WithoutSeparators(s) == SelectSeq(s, LAMBDA c : c # "_" /\ c # "-")

C29_NumericComparedAsIntegers ==
    (/\ fpc = "filter"
     /\ start_after # <<>>
     /\ PurelyNumeric(migration_timestamp)
     /\ PurelyNumeric(start_after[1]))
    => /\ \A r \in Range(should_check.adapters) :
            r <=> IntegerGreater(migration_timestamp, start_after[1])
       /\ \A r \in Range(should_check.config) :
            MIGRATION_TIMESTAMP_REGEX(migration_timestamp) # <<>>
            => (r <=> IntegerGreater(migration_timestamp, start_after[1]))

\* ------------------------------------------------ total resolution (C30)
NewlineCount(src) == Cardinality({i \in DOMAIN src : IsNewline(src[i])})

\* the recorded offset, clamped to the length of the text
Clamped(src, off) == IF off > Len(src) THEN Len(src) ELSE off

====
